---- MODULE Spec2Model ----
(***************************************************************************)
(* Chunked multipart upload of dropfiles: the upload coordinator           *)
(* (files.controller.ts), its durable store (prisma.util.ts, the init      *)
(* migration), the session cache (redis.util.ts), the event reconciler     *)
(* (sqs.util.ts) and the client scheduler (file-upload.util.ts).           *)
(*                                                                         *)
(* A request handler is a sequence of steps, one per await that touches a  *)
(* store; handlers of different requests interleave between steps.         *)
(***************************************************************************)
EXTENDS Integers, Sequences, FiniteSets, Bags, TLC

\* ------------------------------------------------------------ constants

CHUNK_SIZE == 5 * 1024 * 1024

MAX_FILE_SIZE == 1 * 1024 * 1024 * 1024

\* ------------------------------------------------------------ bounds

\* Requests anonymous callers issue in one behaviour.
MaxCalls == 3

\* Requests the coordinator handles at the same time.
MaxInflight == 2

\* Bound on the record-chunk calls answered while the durable store is unreachable.
MaxFaults == 3

FileIds == {"f1", "f2"}

\* An upload id is assigned per initiate, so there are at most MaxCalls of them.
UploadIds == 1 .. MaxCalls

Etags == {"e1", "e2"}

\* Chunk indexes callers record.
ChunkIndexes == {0, 1}

\* File sizes callers submit: one part (5 MB), three parts (12 MB).
FileSizes == {CHUNK_SIZE, 12 * 1024 * 1024}

\* Object sizes an object-created record carries: none (0), or the size of the object.
EventSizes == {0, CHUNK_SIZE}

\* File sizes the browser uploads: one part, four parts (two batches), and a file
\* over the coordinator's limit.
ClientFileSizes == {CHUNK_SIZE, 16 * 1024 * 1024, MAX_FILE_SIZE + 1}

\* FileUploader: makeRequest(endpoint, body, retries = 3)
retries == 3

\* new FileUploader(file, 5 * 1024 * 1024, baseURL, onProgress, 3)
maxParallelUploads == 3

\* ------------------------------------------------------------ state

VARIABLES
    metadata,   \* table "metadata": set of rows
    chunks,     \* table "chunks": set of rows
    redis,      \* session cache: uploadId -> object key, 0 when absent
    s3,         \* object store: uploadId -> state of the multipart upload
    reqs,       \* bag of coordinator requests: in flight, or answered (pc = "done")
    worker,     \* the reconciler's position in processS3Record
    issued,     \* history: uploadId -> fileId a successful initiate returned it for
    up,         \* the browser's FileUploader and its upload() call
    parts,      \* partNumber -> position of uploadChunk(partNumber)
    poller      \* the event queue and the position of the loop that polls it

vars == <<metadata, chunks, redis, s3, reqs, worker, issued, up, parts, poller>>

stores == <<metadata, chunks, redis, s3>>

NewReq ==
    [op |-> "none", pc |-> "recv", from |-> "anon", fileId |-> "", uploadId |-> 0,
     chunkIndex |-> 0, etag |-> "", size |-> 0, s3Key |-> 0, code |-> 0, urls |-> 0,
     err |-> "none", att |-> 0, part |-> 0, lacks |-> {}, nan |-> FALSE,
     redisDeleted |-> 0]

WorkerIdle == [pc |-> "idle", s3Key |-> 0, size |-> 0, result |-> "none"]

\* the queue is empty and the loop is about to receive. last is history: the message
\* handled last and whether deleteMessage was called for it ("asked") or a throw left
\* it in the queue ("left").
PollerIdle ==
    [pc |-> "poll", queue |-> {}, batch |-> <<>>, sent |-> 0, failures |-> 0,
     last |-> [id |-> 0, shape |-> "none", end |-> "none"]]

Requests == BagToSet(reqs)

InFlight == {r \in Requests : r.pc # "done"}

Answered == {r \in Requests : r.pc = "done"}

\* the number of requests of the bag that are in S
Copies(S) == BagCardinality([r \in S \cap Requests |-> reqs[r]])

\* The request r becomes r2.
Move(r, r2) == reqs' = (reqs (-) SetToBag({r})) (+) SetToBag({r2})

Send(r) == reqs' = reqs (+) SetToBag({r})

Respond(r, code, err) == Move(r, [r EXCEPT !.pc = "done", !.code = code, !.err = err])

\* ------------------------------------------------------------ chunk addressing

\* Math.ceil(fileSizeBytes / CHUNK_SIZE)
numParts(size) ==
    IF size % CHUNK_SIZE = 0 THEN size \div CHUNK_SIZE ELSE size \div CHUNK_SIZE + 1

\* size of chunk i: isLast ? fileSizeBytes - i * CHUNK_SIZE : CHUNK_SIZE
chunkSizeOf(size, i) ==
    IF i = numParts(size) - 1 THEN size - i * CHUNK_SIZE ELSE CHUNK_SIZE

\* ------------------------------------------------------------ durable store

MetaOf(f) == {m \in metadata : m.fileId = f}

MetaByKey(k) == {m \in metadata : m.s3Key = k}

ChunksOf(f) == {c \in chunks : c.fileId = f}

ChunkAt(f, i) == {c \in chunks : c.fileId = f /\ c.chunkIndex = i}

\* prisma.fileMetadata.create: the row a successful create adds
createFileMetadata(f, size, key) ==
    [fileId |-> f, s3Key |-> key, status |-> "UPLOADING", size |-> size]

\* Mutant of pendingChunks: the part count rounded down instead of up.
pendingChunksFloor(f, size, key) ==
    {[fileId |-> f, chunkIndex |-> i, size |-> CHUNK_SIZE, s3Key |-> key,
      status |-> "PENDING", checksum |-> ""] : i \in 0 .. (size \div CHUNK_SIZE) - 1}

\* the chunk rows tx.chunk.createMany is given
pendingChunks(f, size, key) ==
    {[fileId |-> f, chunkIndex |-> i, size |-> chunkSizeOf(size, i), s3Key |-> key,
      status |-> "PENDING", checksum |-> ""] : i \in 0 .. numParts(size) - 1}

\* metadata_pkey: PRIMARY KEY (file_id)
MetaInsertOk(f) == MetaOf(f) = {}

\* chunks_index_key: UNIQUE (index); chunks_file_id_index_key: UNIQUE (file_id, index)
ChunkInsertOk(rows) ==
    \A r \in rows : \A c \in chunks : c.chunkIndex # r.chunkIndex

\* prisma.chunk.update ... data: {checksum: etag, status: COMPLETED}
\* Mutant of updateChunk: a chunk already COMPLETED keeps its first checksum.
updateChunkFirstWins(f, i, etag) ==
    {IF c.fileId = f /\ c.chunkIndex = i /\ c.status # "COMPLETED"
        THEN [c EXCEPT !.checksum = etag, !.status = "COMPLETED"]
        ELSE c : c \in chunks}

\* prisma.chunk.update({where: {fileId_chunkIndex}, data: {checksum: etag, status: COMPLETED}})
updateChunk(f, i, etag) ==
    {IF c.fileId = f /\ c.chunkIndex = i
        THEN [c EXCEPT !.checksum = etag, !.status = "COMPLETED"]
        ELSE c : c \in chunks}

\* Mutant of recordUploadedMetadata: the row is marked FAILED (recordFailedMetadata).
recordUploadedMetadataAsFailed(f) ==
    {IF m.fileId = f THEN [m EXCEPT !.status = "FAILED"] ELSE m : m \in metadata}

\* prisma.fileMetadata.update ... data: {status: UPLOADED}
recordUploadedMetadata(f) ==
    {IF m.fileId = f THEN [m EXCEPT !.status = "UPLOADED"] ELSE m : m \in metadata}

\* prisma.fileMetadata.delete; chunks_file_id_fkey ON DELETE CASCADE
deleteFileMetadata(f) == metadata \ MetaOf(f)

cascadeChunks(f) == chunks \ ChunksOf(f)

\* ------------------------------------------------------------ callers

\* An anonymous caller may issue a request.
MayCall ==
    /\ Copies({r \in Requests : r.from = "anon"}) < MaxCalls
    /\ Copies(InFlight) < MaxInflight

CallGetUploadUrls(f, size) ==
    /\ MayCall
    /\ Send([NewReq EXCEPT !.op = "getUploadUrls", !.fileId = f, !.size = size])
    /\ UNCHANGED <<stores, worker, poller, issued, up, parts>>

CallRecordChunk(f, i, e) ==
    /\ MayCall
    /\ Send([NewReq EXCEPT !.op = "recordChunk", !.fileId = f, !.chunkIndex = i, !.etag = e])
    /\ UNCHANGED <<stores, worker, poller, issued, up, parts>>

\* Bodies of initiate calls that lack a field or carry a size that is no number.
\* A body without file_id has the fileId "".
BadBodies ==
    {[NewReq EXCEPT !.op = "getUploadUrls", !.fileId = "", !.size = CHUNK_SIZE,
                    !.lacks = {"file_id"}]}
    \cup {[NewReq EXCEPT !.op = "getUploadUrls", !.fileId = "f1", !.size = CHUNK_SIZE,
                         !.lacks = {l}] : l \in {"file_name", "file_type"}}
    \cup {[NewReq EXCEPT !.op = "getUploadUrls", !.fileId = "f1", !.lacks = {"file_size"}],
          [NewReq EXCEPT !.op = "getUploadUrls", !.fileId = "f1", !.nan = TRUE]}

\* sizes of initiate calls around the limits of the validation
EdgeSizes == {-1, 0, 1, MAX_FILE_SIZE, MAX_FILE_SIZE + 1}

CallGetUploadUrlsWith(body) ==
    /\ MayCall
    /\ Send(body)
    /\ UNCHANGED <<stores, worker, poller, issued, up, parts>>

\* no call of that operation was made yet
First(op) == \A r \in Requests : r.op # op

\* complete and abort are called with an uploadId and the fileId it was returned for
CallComplete(u) ==
    /\ MayCall
    /\ issued[u] # ""
    /\ Send([NewReq EXCEPT !.op = "complete", !.fileId = issued[u], !.uploadId = u])
    /\ UNCHANGED <<stores, worker, poller, issued, up, parts>>

CallAbort(u) ==
    /\ MayCall
    /\ issued[u] # ""
    /\ Send([NewReq EXCEPT !.op = "abort", !.fileId = issued[u], !.uploadId = u])
    /\ UNCHANGED <<stores, worker, poller, issued, up, parts>>

\* abort is called with any fileId and any uploadId of an initiate that was answered
CallAbortAny(u, f) ==
    /\ MayCall
    /\ \E q \in Answered : q.op = "getUploadUrls" /\ q.uploadId = u
    /\ Send([NewReq EXCEPT !.op = "abort", !.fileId = f, !.uploadId = u])
    /\ UNCHANGED <<stores, worker, poller, issued, up, parts>>

\* ------------------------------------------------------------ getUploadUrls

FreshUpload(u) ==
    /\ s3[u] = "none"
    /\ \A v \in UploadIds : v < u => s3[v] # "none"

\* The body of a request: lacks is the set of the fields of the body that are absent or
\* empty, nan whether file_size is a text that is no number, and size the number
\* file_size is the text of otherwise. user_id is never absent: protected_route lets
\* no request without it through.
\* Number(file_size)
Number(r) == [nan |-> r.nan \/ "file_size" \in r.lacks, n |-> r.size]

\* Mutant of validationOf: a size over MAX_FILE_SIZE passes.
validationOfNoLimit(r) ==
    IF r.lacks # {}
       THEN "Invalid input"
       ELSE IF Number(r).nan \/ Number(r).n = 0 \/ Number(r).n <= 0
               THEN "Invalid file size"
               ELSE "none"

\* the error of the 400 the validation of getUploadUrls answers, "none" when it passes
validationOf(r) ==
    IF r.lacks # {}
       THEN "Invalid input"
       ELSE IF Number(r).nan \/ Number(r).n = 0 \/ Number(r).n <= 0
               THEN "Invalid file size"
               ELSE IF Number(r).n > MAX_FILE_SIZE
                       THEN "File exceeds allowed size limit"
                       ELSE "none"

\* validation, then uploader.initUpload()
getUploadUrls_initUpload(r) ==
    /\ r.op = "getUploadUrls" /\ r.pc = "recv"
    /\ IF validationOf(r) # "none"
          THEN /\ Respond(r, 400, "validation")
               /\ UNCHANGED s3
          ELSE \E u \in UploadIds :
               /\ FreshUpload(u)
               /\ s3' = [s3 EXCEPT ![u] = "open"]
               /\ Move(r, [r EXCEPT !.pc = "opened", !.uploadId = u, !.s3Key = u])
    /\ UNCHANGED <<metadata, chunks, redis, worker, poller, issued, up, parts>>

\* the presigned URLs, then rd.set(`upload:${uploadId}`, {bucket, key}, "EX", REDIS_TTL)
getUploadUrls_setSession(r) ==
    /\ r.op = "getUploadUrls" /\ r.pc = "opened"
    /\ redis' = [redis EXCEPT ![r.uploadId] = r.s3Key]
    /\ Move(r, [r EXCEPT !.pc = "cached", !.urls = numParts(r.size)])
    /\ UNCHANGED <<metadata, chunks, s3, worker, poller, issued, up, parts>>

\* prisma.$transaction: createFileMetadata and chunk.createMany commit together
TransactionCommits(f, size, key) ==
    /\ MetaInsertOk(f)
    /\ ChunkInsertOk(pendingChunks(f, size, key))

\* Mutant of txMetadata: the metadata row is written outside the transaction and
\* survives a failing chunk.createMany.
txMetadataNoRollback(f, size, key) ==
    IF MetaInsertOk(f)
       THEN metadata \cup {createFileMetadata(f, size, key)}
       ELSE metadata

\* table "metadata" after the transaction
txMetadata(f, size, key) ==
    IF TransactionCommits(f, size, key)
       THEN metadata \cup {createFileMetadata(f, size, key)}
       ELSE metadata

\* table "chunks" after the transaction
txChunks(f, size, key) ==
    IF TransactionCommits(f, size, key)
       THEN chunks \cup pendingChunks(f, size, key)
       ELSE chunks

getUploadUrls_transaction(r) ==
    /\ r.op = "getUploadUrls" /\ r.pc = "cached"
    /\ metadata' = txMetadata(r.fileId, r.size, r.s3Key)
    /\ chunks' = txChunks(r.fileId, r.size, r.s3Key)
    /\ IF TransactionCommits(r.fileId, r.size, r.s3Key)
          THEN /\ issued' = [issued EXCEPT ![r.uploadId] = r.fileId]
               /\ Respond(r, 200, "none")
          ELSE /\ UNCHANGED issued
               /\ Respond(r, 500, "Internal error")
    /\ UNCHANGED <<redis, s3, worker, poller, up, parts>>

\* uploader.initUpload() answers {success: false}: 500 "Upload init failed"
getUploadUrls_initUploadFails(r) ==
    /\ r.op = "getUploadUrls" /\ r.pc = "recv"
    /\ validationOf(r) = "none"
    /\ Respond(r, 500, "Upload init failed")
    /\ UNCHANGED <<stores, worker, poller, issued, up, parts>>

\* a presign, rd.set or the transaction throws (a store is unreachable): the catch
\* answers 500 "Internal error"
getUploadUrls_throws(r) ==
    /\ r.op = "getUploadUrls" /\ r.pc \in {"opened", "cached"}
    /\ Respond(r, 500, "Internal error")
    /\ UNCHANGED <<stores, worker, poller, issued, up, parts>>

\* rd.set(..., "EX", REDIS_TTL): the cache drops the entry when its 24 h are over
sessionExpires(u) ==
    /\ redis[u] # 0
    /\ redis' = [redis EXCEPT ![u] = 0]
    /\ UNCHANGED <<metadata, chunks, s3, reqs, worker, poller, issued, up, parts>>

\* ------------------------------------------------------------ recordChunkUpload

recordChunkUpload(r) ==
    /\ r.op = "recordChunk" /\ r.pc = "recv"
    /\ LET f == r.fileId
           i == r.chunkIndex
       IN IF ChunkAt(f, i) # {}
             THEN /\ chunks' = updateChunk(f, i, r.etag)
                  /\ Respond(r, 200, "none")
             ELSE /\ UNCHANGED chunks
                  /\ Respond(r, 500, "P2025")
    /\ UNCHANGED <<metadata, redis, s3, worker, poller, issued, up, parts>>

\* PrismaUtil.updateChunk throws for another reason than a missing row (the durable
\* store is unreachable): the catch answers 500 "Internal error"
recordChunkUpload_throws(r) ==
    /\ r.op = "recordChunk" /\ r.pc = "recv"
    /\ Copies({q \in Answered : q.op = "recordChunk" /\ q.err = "Internal error"}) < MaxFaults
    /\ Respond(r, 500, "Internal error")
    /\ UNCHANGED <<stores, worker, poller, issued, up, parts>>

\* ------------------------------------------------------------ completeUpload

\* Mutant of completeUpload_getSession: the Session entry is not looked at and the
\* object key is rebuilt from the request.
completeUpload_getSessionUnchecked(r) ==
    /\ r.op = "complete" /\ r.pc = "recv"
    /\ Move(r, [r EXCEPT !.pc = "cached", !.s3Key = r.uploadId])
    /\ UNCHANGED <<stores, worker, poller, issued, up, parts>>

\* Mutant of completeUpload_getSession: a file with a Chunk row not COMPLETED is refused.
completeUpload_getSessionAllRecorded(r) ==
    /\ r.op = "complete" /\ r.pc = "recv"
    /\ IF redis[r.uploadId] = 0
          THEN Respond(r, 404, "session")
          ELSE IF \E c \in ChunksOf(r.fileId) : c.status # "COMPLETED"
                  THEN Respond(r, 400, "validation")
                  ELSE Move(r, [r EXCEPT !.pc = "cached", !.s3Key = redis[r.uploadId]])
    /\ UNCHANGED <<stores, worker, poller, issued, up, parts>>

\* rd.get(`upload:${uploadId}`): 404 "Upload session missing" when there is none
completeUpload_getSession(r) ==
    /\ r.op = "complete" /\ r.pc = "recv"
    /\ IF redis[r.uploadId] = 0
          THEN Respond(r, 404, "session")
          ELSE Move(r, [r EXCEPT !.pc = "cached", !.s3Key = redis[r.uploadId]])
    /\ UNCHANGED <<stores, worker, poller, issued, up, parts>>

completeUpload_s3(r) ==
    /\ r.op = "complete" /\ r.pc = "cached"
    /\ LET u == r.uploadId
       IN IF s3[u] = "open" /\ r.s3Key = u
             THEN /\ s3' = [s3 EXCEPT ![u] = "completed"]
                  /\ Move(r, [r EXCEPT !.pc = "finalized"])
             ELSE /\ UNCHANGED s3
                  /\ Respond(r, 500, "NoSuchUpload")
    /\ UNCHANGED <<metadata, chunks, redis, worker, poller, issued, up, parts>>

\* uploader.completeUpload(parts, uploadId) throws although the multipart upload is
\* open (a part of the caller's list is not one it holds): the catch answers 500
completeUpload_s3Rejects(r) ==
    /\ r.op = "complete" /\ r.pc = "cached"
    /\ s3[r.uploadId] = "open"
    /\ Respond(r, 500, "InvalidPart")
    /\ UNCHANGED <<stores, worker, poller, issued, up, parts>>

completeUpload_recordUploaded(r) ==
    /\ r.op = "complete" /\ r.pc = "finalized"
    /\ IF MetaOf(r.fileId) # {}
          THEN /\ metadata' = recordUploadedMetadata(r.fileId)
               /\ Move(r, [r EXCEPT !.pc = "marked"])
          ELSE /\ UNCHANGED metadata
               /\ Respond(r, 500, "P2025")
    /\ UNCHANGED <<chunks, redis, s3, worker, poller, issued, up, parts>>

\* PrismaUtil.recordUploadedMetadata throws because the durable store is unreachable:
\* the catch answers 500 with the object finalized and the row still UPLOADING
completeUpload_recordUploadedFails(r) ==
    /\ r.op = "complete" /\ r.pc = "finalized"
    /\ Respond(r, 500, "Internal error")
    /\ UNCHANGED <<stores, worker, poller, issued, up, parts>>

\* Mutant of completeUpload_delSession: success is answered with the Session entry kept.
completeUpload_delSessionKept(r) ==
    /\ r.op = "complete" /\ r.pc = "marked"
    /\ Respond(r, 200, "none")
    /\ UNCHANGED <<stores, worker, poller, issued, up, parts>>

\* rd.del(`upload:${uploadId}`), then 200 "Upload completed"
completeUpload_delSession(r) ==
    /\ r.op = "complete" /\ r.pc = "marked"
    /\ redis' = [redis EXCEPT ![r.uploadId] = 0]
    /\ Respond(r, 200, "none")
    /\ UNCHANGED <<metadata, chunks, s3, worker, poller, issued, up, parts>>

\* ------------------------------------------------------------ abortUpload

\* Mutant of alreadyAborted: an abort that finds no metadata row is answered 404.
alreadyAbortedNotFound(r) == [r EXCEPT !.pc = "done", !.code = 404, !.err = "already"]

\* no metadata row: res.json({success: true, message: "Upload session already aborted"})
alreadyAborted(r) == [r EXCEPT !.pc = "done", !.code = 200, !.err = "already"]

abortUpload_findFirst(r) ==
    /\ r.op = "abort" /\ r.pc = "recv"
    /\ IF MetaOf(r.fileId) = {}
          THEN Move(r, alreadyAborted(r))
          ELSE \E m \in MetaOf(r.fileId) :
                  Move(r, [r EXCEPT !.pc = "found", !.s3Key = m.s3Key])
    /\ UNCHANGED <<stores, worker, poller, issued, up, parts>>

\* const redisDeleted = await rd.del(`upload:${uploadId}`): the number of entries
\* deleted, which is logged
abortUpload_delSession(r) ==
    /\ r.op = "abort" /\ r.pc = "found"
    /\ redis' = [redis EXCEPT ![r.uploadId] = 0]
    /\ Move(r, [r EXCEPT !.pc = "uncached",
                         !.redisDeleted = IF redis[r.uploadId] # 0 THEN 1 ELSE 0])
    /\ UNCHANGED <<metadata, chunks, s3, worker, poller, issued, up, parts>>

\* Mutant of abortUpload_deleteMetadata: P2025 reaches the outer catch.
abortUpload_deleteMetadataStrict(r) ==
    /\ r.op = "abort" /\ r.pc = "uncached"
    /\ metadata' = deleteFileMetadata(r.fileId)
    /\ chunks' = cascadeChunks(r.fileId)
    /\ IF MetaOf(r.fileId) = {}
          THEN Respond(r, 500, "Internal error")
          ELSE Move(r, [r EXCEPT !.pc = "deleted"])
    /\ UNCHANGED <<redis, s3, worker, poller, issued, up, parts>>

\* PrismaUtil.deleteFileMetadata; P2025 (no such row) is caught and ignored
abortUpload_deleteMetadata(r) ==
    /\ r.op = "abort" /\ r.pc = "uncached"
    /\ metadata' = deleteFileMetadata(r.fileId)
    /\ chunks' = cascadeChunks(r.fileId)
    /\ Move(r, [r EXCEPT !.pc = "deleted"])
    /\ UNCHANGED <<redis, s3, worker, poller, issued, up, parts>>

\* Mutant of abortUpload_s3: the object key is taken from the Session entry.
abortUpload_s3KeyOfSession(r) ==
    /\ r.op = "abort" /\ r.pc = "deleted"
    /\ LET u == r.uploadId
       IN s3' = IF s3[u] = "open" /\ redis[u] = u
                   THEN [s3 EXCEPT ![u] = "aborted"]
                   ELSE s3
    /\ Respond(r, 200, "none")
    /\ UNCHANGED <<metadata, chunks, redis, worker, poller, issued, up, parts>>

\* uploader.abortUpload(uploadId) on the captured key; every error is swallowed
abortUpload_s3(r) ==
    /\ r.op = "abort" /\ r.pc = "deleted"
    /\ LET u == r.uploadId
       IN s3' = IF s3[u] = "open" /\ r.s3Key = u
                   THEN [s3 EXCEPT ![u] = "aborted"]
                   ELSE s3
    /\ Respond(r, 200, "none")
    /\ UNCHANGED <<metadata, chunks, redis, worker, poller, issued, up, parts>>

\* findFirst, rd.del or the delete throws (not P2025): the outer catch answers 500
\* "Internal error while aborting upload"
abortUpload_throws(r) ==
    /\ r.op = "abort" /\ r.pc \in {"recv", "found", "uncached"}
    /\ Respond(r, 500, "Internal error")
    /\ UNCHANGED <<stores, worker, poller, issued, up, parts>>

\* uploader.abortUpload(uploadId) fails for another reason than NoSuchUpload: the error
\* is logged and the abort is still answered as a success
abortUpload_s3Fails(r) ==
    /\ r.op = "abort" /\ r.pc = "deleted"
    /\ s3[r.uploadId] = "open"
    /\ Respond(r, 200, "none")
    /\ UNCHANGED <<stores, worker, poller, issued, up, parts>>

\* ------------------------------------------------------------ reconciler

\* The object key of upload k, `dropbox/${user_id}/${Date.now()}-${file_name}`, as a
\* sequence of characters: the file names hold spaces and plus signs.
Name(k) == [i \in 1 .. k + 1 |-> IF i = 1 THEN "a" ELSE IF i % 2 = 0 THEN " " ELSE "+"]

\* the key as the object store writes it in an event record: URL-encoded, a space
\* as a plus sign
encodeKey(name) ==
    [i \in 1 .. Len(name) |-> IF name[i] = " " THEN "+"
                              ELSE IF name[i] = "+" THEN "%2B" ELSE name[i]]

\* record.s3.object.key of an event for the object of upload k
rawKeyOf(k) == encodeKey(Name(k))

\* decodeS3Key: rawKey.replace(/\+/g, "%20"), then decodeURIComponent; the raw key
\* when that throws (an escape that is none)
decodeS3Key(rawKey) ==
    LET plusNormalized == [i \in 1 .. Len(rawKey) |->
                              IF rawKey[i] = "+" THEN "%20" ELSE rawKey[i]]
    IN IF \E i \in 1 .. Len(rawKey) : plusNormalized[i] = "%"
          THEN rawKey
          ELSE [i \in 1 .. Len(rawKey) |->
                   IF plusNormalized[i] = "%20" THEN " "
                   ELSE IF plusNormalized[i] = "%2B" THEN "+" ELSE plusNormalized[i]]

\* the rows a query with where: {s3Key} addresses
where(s3Key) == {m \in metadata : Name(m.s3Key) = s3Key}

\* Mutant of existing: the lookup always answers a row.
existingAny(k) == {createFileMetadata("f1", 0, k)}

\* prisma.fileMetadata.findUnique({where: {s3Key}}), s3Key the decoded key of the
\* record of an event for the object of upload k
existing(k) == where(decodeS3Key(rawKeyOf(k)))

\* An object-created record for key k (delivered at least once, so any number of
\* times) with the object's size, 0 when the record has none.
\* processS3Record: prisma.fileMetadata.findUnique({where: {s3Key}})
processS3Record_find(k, size) ==
    /\ worker.pc = "idle"
    /\ s3[k] = "completed"
    /\ worker' = IF existing(k) = {}
                    THEN [pc |-> "idle", s3Key |-> 0, size |-> 0, result |-> "skipped"]
                    ELSE [pc |-> "found", s3Key |-> k, size |-> size, result |-> "none"]
    /\ UNCHANGED <<stores, reqs, issued, up, parts, poller>>

\* Mutant of updateByKey: the status is taken back to UPLOADING.
updateByKeyReset(k, size) ==
    {IF m.s3Key = k THEN [m EXCEPT !.status = "UPLOADING"] ELSE m : m \in metadata}

\* Mutant of updateByKey: the size is written also when the record has none.
updateByKeySizeAlways(k, size) ==
    {IF m \in where(decodeS3Key(rawKeyOf(k)))
        THEN [m EXCEPT !.status = "UPLOADED", !.size = size]
        ELSE m : m \in metadata}

\* prisma.fileMetadata.update({where: {s3Key},
\*     data: {status: UPLOADED, ...(size && {size: parseInt(size)})}})
updateByKey(k, size) ==
    {IF m \in where(decodeS3Key(rawKeyOf(k)))
        THEN [m EXCEPT !.status = "UPLOADED", !.size = IF size # 0 THEN size ELSE @]
        ELSE m : m \in metadata}

processS3Record_update ==
    /\ worker.pc = "found"
    /\ IF existing(worker.s3Key) # {}
          THEN /\ metadata' = updateByKey(worker.s3Key, worker.size)
               /\ worker' = [pc |-> "idle", s3Key |-> 0, size |-> 0, result |-> "updated"]
          ELSE /\ UNCHANGED metadata
               /\ worker' = [pc |-> "idle", s3Key |-> 0, size |-> 0, result |-> "threw"]
    /\ UNCHANGED <<chunks, redis, s3, reqs, issued, up, parts, poller>>

\* ------------------------------------------------------------ event queue

\* Bound on the messages put on the queue.
MaxMessages == 2

\* Bound on the calls of the poll loop that fail because the queue or the durable
\* store is unreachable.
MaxOutages == 1

\* ReceiveMessage: MaxNumberOfMessages of a poll
BatchSize == 2

\* A message body is modelled by its shape and, where it names an object, the key and
\* the size of the object (0: none given). "invalid" is a body that is not JSON, "null"
\* is what tryParseJson answers for it.
Shapes == {"Records", "Notification", "detail", "TestEvent", "unknown", "invalid"}

Body(shape, key, size) == [shape |-> shape, key |-> key, size |-> size]

Null == Body("null", 0, 0)

\* Mutant of tryParseJson: JSON.parse outside a try, the exception reaches the caller.
tryParseJsonThrows(raw) == IF raw.shape = "invalid" THEN Body("threw", 0, 0) ELSE raw

\* try { return JSON.parse(raw) } catch { return null }
tryParseJson(raw) == IF raw.shape = "invalid" THEN Null ELSE raw

\* A parsed message body by the members the recognizers look at. Event is
\* messageBody.Event; Records, whether messageBody.Records is an array, and the array;
\* Message, whether Type is "Notification" with a string for Message, what that string
\* parses to ("Records": an object with a Records array, "other": another JSON,
\* "invalid": no JSON) and the array; detail, whether detail.requestParameters has a
\* bucketName and a key, and the key. A record is its object key (0: it has none) and
\* its size (0: it has none).
NoRecords == [has |-> FALSE, list |-> <<>>]

NoMessage == [has |-> FALSE, json |-> "other", list |-> <<>>]

NoDetail == [has |-> FALSE, key |-> 0]

Plain == [Event |-> "none", Records |-> NoRecords, Message |-> NoMessage, detail |-> NoDetail]

\* the members of the body of a given shape
MembersOf(body) ==
    LET list == <<[key |-> body.key, size |-> body.size]>>
    IN IF body.shape = "TestEvent" THEN [Plain EXCEPT !.Event = "s3:TestEvent"]
       ELSE IF body.shape = "Records"
               THEN [Plain EXCEPT !.Records = [has |-> TRUE, list |-> list]]
       ELSE IF body.shape = "Notification"
               THEN [Plain EXCEPT !.Message = [has |-> TRUE, json |-> "Records",
                                                list |-> list]]
       ELSE IF body.shape = "detail"
               THEN [Plain EXCEPT !.detail = [has |-> TRUE, key |-> body.key]]
       ELSE Plain

\* Mutant of extractS3Records: the Records array is looked at before the Event.
extractS3RecordsFirst(messageBody) ==
    IF messageBody.Records.has THEN messageBody.Records.list
    ELSE IF messageBody.Event = "s3:TestEvent" THEN <<>>
    ELSE IF messageBody.Message.has /\ messageBody.Message.json = "Records"
            THEN messageBody.Message.list
    ELSE IF messageBody.detail.has
            THEN <<[key |-> messageBody.detail.key, size |-> 0]>>
    ELSE <<>>

\* the records of a message body: none for an s3:TestEvent; messageBody.Records when
\* it is an array; the Records of the JSON in the Message of a Notification when they
\* are an array; one record with bucket and key, and no size, for an audit event;
\* none otherwise
extractS3Records(messageBody) ==
    IF messageBody.Event = "s3:TestEvent" THEN <<>>
    ELSE IF messageBody.Records.has THEN messageBody.Records.list
    ELSE IF messageBody.Message.has /\ messageBody.Message.json = "Records"
            THEN messageBody.Message.list
    ELSE IF messageBody.detail.has
            THEN <<[key |-> messageBody.detail.key, size |-> 0]>>
    ELSE <<>>

\* the records processS3Record goes to the durable store for: those with an object key
Actionable(m) ==
    LET records == extractS3Records(MembersOf(tryParseJson(m.body)))
    IN {records[i] : i \in {j \in 1 .. Len(records) : records[j].key # 0}}

\* Mutant of deleteMessage: the message stays in the queue.
deleteMessageNot(queue, m, ok) == queue

\* sqs.send(new DeleteMessageCommand(...)); a failure is logged and swallowed
deleteMessage(queue, m, ok) == IF ok THEN queue \ {m} ELSE queue

\* a message arrives on the queue: the notification of the object store for a
\* completed object, or a body that names none
notify(body) ==
    /\ poller.sent < MaxMessages
    /\ body.key # 0 => s3[body.key] = "completed"
    /\ poller' = [poller EXCEPT !.sent = @ + 1,
                                !.queue = @ \cup {[id |-> poller.sent + 1, body |-> body]}]
    /\ UNCHANGED <<stores, reqs, worker, issued, up, parts>>

\* the bodies put on the queue
Bodies ==
    {Body("Records", k, CHUNK_SIZE) : k \in UploadIds}
        \cup {Body("detail", k, 0) : k \in UploadIds}
        \cup {Body("TestEvent", 0, 0), Body("unknown", 0, 0), Body("invalid", 0, 0)}

\* the messages of a set in the order they are handled
RECURSIVE InOrder(_)
InOrder(S) ==
    IF S = {} THEN <<>>
    ELSE LET m == CHOOSE x \in S : \A y \in S : x.id <= y.id
         IN <<m>> \o InOrder(S \ {m})

\* the poll loop receives up to BatchSize messages
pollS3Events_receive ==
    /\ poller.pc = "poll"
    /\ \E B \in SUBSET poller.queue :
          /\ B # {} /\ Cardinality(B) <= BatchSize
          /\ poller' = [poller EXCEPT !.pc = "batch", !.batch = InOrder(B)]
    /\ UNCHANGED <<stores, reqs, worker, issued, up, parts>>

\* Mutant of pollS3Events_receiveFails: the error ends the loop.
pollS3Events_receiveEnds ==
    /\ poller.pc = "poll"
    /\ poller.failures < MaxOutages
    /\ poller' = [poller EXCEPT !.pc = "ended", !.failures = @ + 1]
    /\ UNCHANGED <<stores, reqs, worker, issued, up, parts>>

\* the receive call fails: the error is caught and logged, the loop waits
pollS3Events_receiveFails ==
    /\ poller.pc = "poll"
    /\ poller.failures < MaxOutages
    /\ poller' = [poller EXCEPT !.pc = "wait", !.failures = @ + 1]
    /\ UNCHANGED <<stores, reqs, worker, issued, up, parts>>

\* the fixed delay is over: the loop polls again
pollS3Events_delay ==
    /\ poller.pc = "wait"
    /\ poller' = [poller EXCEPT !.pc = "poll"]
    /\ UNCHANGED <<stores, reqs, worker, issued, up, parts>>

\* the loop goes to the next message of the batch, or polls again
nextMessage(p) ==
    [p EXCEPT !.batch = Tail(@), !.pc = IF Len(p.batch) = 1 THEN "poll" ELSE "batch"]

\* processing of message m finished without a throw: deleteMessage, then the next one
processed(p, m, ok) ==
    [nextMessage(p) EXCEPT !.queue = deleteMessage(@, m, ok),
                           !.last = [id |-> m.id, shape |-> m.body.shape, end |-> "asked"],
                           !.failures = IF ok THEN @ ELSE @ + 1]

\* the outcomes of a delete call: it fails only while the queue is unreachable
Deletes == IF poller.failures < MaxOutages THEN BOOLEAN ELSE {TRUE}

\* processing of message m threw: the error is logged, the message is left, the next one
thrown(p, m) ==
    [nextMessage(p) EXCEPT !.last = [id |-> m.id, shape |-> m.body.shape, end |-> "left"]]

\* Mutant of processS3Record_catch: the error is logged and not thrown again.
processS3Record_catchSwallows == "returned"

\* processS3Record: catch (dbErr) { logger.error(...); throw dbErr }
processS3Record_catch == "threw"

\* the durable store failed while message m was processed
dbErr(p, m) == IF processS3Record_catch = "threw" THEN thrown(p, m) ELSE processed(p, m, TRUE)

\* a message is parsed and normalised; processS3Record up to findUnique
pollS3Events_message(ok) ==
    /\ poller.pc = "batch" /\ worker.pc = "idle"
    /\ LET m == Head(poller.batch)
       IN IF tryParseJson(m.body).shape = "threw"
             THEN /\ poller' = thrown(poller, m)
                  /\ worker' = [WorkerIdle EXCEPT !.result = "threw"]
          ELSE IF Actionable(m) = {}
             THEN /\ poller' = processed(poller, m, ok)
                  /\ worker' = [WorkerIdle EXCEPT !.result = "none"]
          ELSE \E record \in Actionable(m) :
                  IF existing(record.key) = {}
                     THEN /\ poller' = processed(poller, m, ok)
                          /\ worker' = [WorkerIdle EXCEPT !.result = "skipped"]
                     ELSE /\ UNCHANGED poller
                          /\ worker' = [pc |-> "found", s3Key |-> record.key,
                                         size |-> record.size, result |-> "none"]
    /\ UNCHANGED <<stores, reqs, issued, up, parts>>

\* Mutant of pollS3Events_update: an upsert, the row that is gone is created again.
pollS3Events_updateUpserts(ok) ==
    /\ poller.pc = "batch" /\ worker.pc = "found"
    /\ LET m == Head(poller.batch)
       IN /\ metadata' = IF existing(worker.s3Key) # {}
                            THEN updateByKey(worker.s3Key, worker.size)
                            ELSE metadata \cup {[createFileMetadata("f1", worker.size,
                                                      worker.s3Key) EXCEPT !.status = "UPLOADED"]}
          /\ poller' = processed(poller, m, ok)
          /\ worker' = [WorkerIdle EXCEPT !.result = "updated"]
    /\ UNCHANGED <<chunks, redis, s3, reqs, issued, up, parts>>

\* processS3Record: prisma.fileMetadata.update; P2025 when the row is gone meanwhile
pollS3Events_update(ok) ==
    /\ poller.pc = "batch" /\ worker.pc = "found"
    /\ LET m == Head(poller.batch)
       IN IF existing(worker.s3Key) # {}
             THEN /\ metadata' = updateByKey(worker.s3Key, worker.size)
                  /\ poller' = processed(poller, m, ok)
                  /\ worker' = [WorkerIdle EXCEPT !.result = "updated"]
             ELSE /\ UNCHANGED metadata
                  /\ poller' = dbErr(poller, m)
                  /\ worker' = [WorkerIdle EXCEPT !.result = "threw"]
    /\ UNCHANGED <<chunks, redis, s3, reqs, issued, up, parts>>

\* processS3Record: findUnique or update throws because the durable store is
\* unreachable; the error is logged and thrown again
pollS3Events_storeFails ==
    /\ poller.pc = "batch"
    /\ poller.failures < MaxOutages
    /\ worker.pc = "found" \/ Actionable(Head(poller.batch)) # {}
    /\ poller' = [dbErr(poller, Head(poller.batch)) EXCEPT !.failures = @ + 1]
    /\ worker' = [WorkerIdle EXCEPT !.result = "threw"]
    /\ UNCHANGED <<stores, reqs, issued, up, parts>>

\* ------------------------------------------------------------ message shapes

\* Message bodies with the members of several shapes at once; the records of the
\* three shapes name different objects.
Envelopes ==
    {[Event |-> e, Records |-> r, Message |-> m, detail |-> d] :
        e \in {"none", "s3:TestEvent"},
        r \in {NoRecords, [has |-> TRUE, list |-> <<>>],
               [has |-> TRUE, list |-> <<[key |-> 1, size |-> CHUNK_SIZE]>>],
               [has |-> TRUE, list |-> <<[key |-> 1, size |-> CHUNK_SIZE],
                                         [key |-> 0, size |-> 0]>>]},
        m \in {NoMessage, [has |-> TRUE, json |-> "invalid", list |-> <<>>],
               [has |-> TRUE, json |-> "other", list |-> <<>>],
               [has |-> TRUE, json |-> "Records", list |-> <<[key |-> 2, size |-> 0]>>]},
        d \in {NoDetail, [has |-> TRUE, key |-> 3]}}

\* a message body was parsed; extracted is history, the records extractS3Records gave
Parsed(messageBody) ==
    [pc |-> "parsed", messageBody |-> messageBody, extracted |-> <<>>, records |-> <<>>,
     s3Key |-> 0, size |-> 0, result |-> "none"]

\* extractS3Records is applied to the parsed body
extractS3Records_call ==
    /\ worker.pc = "parsed"
    /\ worker' = [worker EXCEPT !.pc = "records",
                                !.extracted = extractS3Records(worker.messageBody),
                                !.records = extractS3Records(worker.messageBody)]
    /\ UNCHANGED <<stores, reqs, poller, issued, up, parts>>

\* processS3Record for the next record: a record without a key is dropped, and so is
\* one whose key has no row
processS3Record_call ==
    /\ worker.pc = "records" /\ worker.records # <<>>
    /\ LET record == Head(worker.records)
       IN worker' = [worker EXCEPT !.records = Tail(@), !.s3Key = record.key,
                                   !.size = record.size,
                                   !.result = IF record.key = 0 THEN "none"
                                              ELSE IF existing(record.key) = {}
                                                      THEN "skipped" ELSE "found"]
    /\ UNCHANGED <<stores, reqs, poller, issued, up, parts>>

\* ------------------------------------------------------------ FileUploader

\* Part numbers of the largest file the browser uploads.
PartNumbers == 1 .. 4

\* this.fileId = generateUUID()
fileId == "f1"

Cancelled == "Upload cancelled by user"

\* constructor: the fields of a new FileUploader, and upload() not called yet.
\* cancelled, known, mid and initiated are history: the first cancellation (none,
\* cancel, cleanup), whether uploadId was set and whether 1 <= recorded chunks < all
\* at that moment, whether the coordinator had committed the initiate when
\* upload() returned, and (late) whether the user cancelled after that. reports is
\* the history of the calls of onProgress.
FileUploader(size) ==
    [pc |-> "idle", req |-> "none", attempt |-> 0, slept |-> 0, size |-> size,
     uploadId |-> 0,
     abortCalled |-> FALSE, aborted |-> FALSE, i |-> 0, result |-> "none", error |-> "none",
     cancelled |-> "none", known |-> FALSE, mid |-> FALSE, initiated |-> FALSE,
     late |-> FALSE, completedChunks |-> 0, reports |-> <<>>]

NoChunk == [pc |-> "idle", attempt |-> 0, slept |-> 0, err |-> "none"]

ClientAborts == {r \in Requests : r.op = "abort" /\ r.from # "anon"}

\* the coordinator committed an initiate of this uploader
ServerInitiated ==
    \E r \in Answered : r.op = "getUploadUrls" /\ r.from = "main" /\ r.code = 200

\* chunks of the file recorded at the coordinator
Recorded == {c \in ChunksOf(fileId) : c.status = "COMPLETED"}

\* parts of the batch starting at part i
Batch(u, i) == {j \in PartNumbers : i <= j /\ j < i + maxParallelUploads /\ j <= numParts(u.size)}

\* Mutant of mayRetry: one attempt more.
mayRetryOneMore(attempt) == attempt < retries

\* makeRequest: if (attempt < retries - 1) the call is tried again
mayRetry(attempt) == attempt < retries - 1

\* makeRequest: const delay = Math.pow(2, attempt) * 1000 (ms slept before the retry)
delay(attempt) == 2 ^ attempt * 1000

\* upload() returns {success: false, error}
returnsFailure(u, err) ==
    [u EXCEPT !.pc = "returned", !.req = "none", !.result = "fail", !.error = err,
              !.initiated = ServerInitiated]

\* Mutant of upload_catch: the failure is returned and no abort is sent.
upload_catchNoAbort(u, err, bag) ==
    /\ up' = returnsFailure(u, err)
    /\ reqs' = bag

\* upload(): catch (err). The abort is sent only with an uploadId, for an error other
\* than the user's cancellation, and when abortUpload was not called before.
upload_catch(u, err, bag) ==
    IF u.uploadId # 0 /\ err # Cancelled /\ ~u.abortCalled
       THEN /\ up' = [u EXCEPT !.pc = "catch", !.req = "none", !.abortCalled = TRUE,
                               !.error = err]
            /\ reqs' = bag (+) SetToBag({[NewReq EXCEPT !.op = "abort", !.from = "catch",
                                            !.fileId = fileId, !.uploadId = u.uploadId]})
       ELSE /\ up' = returnsFailure(u, err)
            /\ reqs' = bag

\* upload() is called
upload ==
    /\ up.pc = "idle"
    /\ up' = [up EXCEPT !.pc = "init", !.req = "try", !.attempt = 0, !.slept = 0]
    /\ UNCHANGED <<stores, reqs, worker, poller, issued, parts>>

\* the body of the request upload() makes at pc
MainRequest(u) ==
    IF u.pc = "init"
       THEN [NewReq EXCEPT !.op = "getUploadUrls", !.from = "main", !.fileId = fileId,
                           !.size = u.size, !.att = u.attempt]
       ELSE [NewReq EXCEPT !.op = "complete", !.from = "main", !.fileId = fileId,
                           !.uploadId = u.uploadId, !.att = u.attempt]

\* the coordinator's answer to the request upload() waits for
MainAnswer == {r \in Answered : /\ r.from = "main" /\ r.att = up.attempt
                                /\ r.op = MainRequest(up).op}

\* makeRequest: an attempt starts with the check of the signal, then fetch
makeRequest_fetch ==
    /\ up.pc \in {"init", "complete"} /\ up.req = "try"
    /\ IF up.aborted
          THEN upload_catch(up, Cancelled, reqs)
          ELSE /\ up' = [up EXCEPT !.req = "wait"]
               /\ Send(MainRequest(up))
    /\ UNCHANGED <<stores, worker, poller, issued, parts>>

\* makeRequest: a response that is not ok is retried after the backoff, the last
\* one is thrown
makeRequest_failed ==
    /\ up.pc \in {"init", "complete"} /\ up.req = "wait" /\ ~up.aborted
    /\ \E r \in MainAnswer :
          /\ r.code # 200
          /\ IF mayRetry(up.attempt)
                THEN /\ up' = [up EXCEPT !.req = "try", !.attempt = @ + 1,
                                         !.slept = delay(up.attempt)]
                     /\ UNCHANGED reqs
                ELSE upload_catch(up, "Internal error", reqs)
    /\ UNCHANGED <<stores, worker, poller, issued, parts>>

\* uploadChunk(j) up to its first await: the check of the signal, then the PUT
startBatch(u, i) ==
    [j \in PartNumbers |-> IF j \in Batch(u, i) THEN [parts[j] EXCEPT !.pc = "put"] ELSE parts[j]]

\* the initiate is answered: this.uploadId = response.uploadId, the first batch starts
upload_initiated ==
    /\ up.pc = "init" /\ up.req = "wait" /\ ~up.aborted
    /\ \E r \in MainAnswer :
          /\ r.code = 200
          /\ up' = [up EXCEPT !.pc = "batch", !.req = "none", !.uploadId = r.uploadId,
                              !.i = 1]
          /\ parts' = startBatch(up, 1)
    /\ UNCHANGED <<stores, reqs, worker, poller, issued>>

\* the PUT of a part to its presigned URL is answered ok with an ETag
uploadChunk_put(p) ==
    /\ parts[p].pc = "put" /\ ~up.aborted
    /\ s3[up.uploadId] = "open"
    /\ parts' = [parts EXCEPT ![p].pc = "try", ![p].attempt = 0, ![p].slept = 0]
    /\ UNCHANGED <<stores, reqs, worker, poller, issued, up>>

\* the PUT fails, is answered not ok, or without an ETag
uploadChunk_putFails(p) ==
    /\ parts[p].pc = "put" /\ ~up.aborted
    /\ parts' = [parts EXCEPT ![p].pc = "threw", ![p].err = "Failed to upload chunk"]
    /\ UNCHANGED <<stores, reqs, worker, poller, issued, up>>

\* Mutant of recordChunk_fetch: the attempt is sent without a look at the signal.
recordChunk_fetchUnchecked(p) ==
    /\ parts[p].pc = "try"
    /\ parts' = [parts EXCEPT ![p].pc = "wait"]
    /\ Send([NewReq EXCEPT !.op = "recordChunk", !.from = "part", !.part = p,
                           !.fileId = fileId, !.chunkIndex = p - 1,
                           !.etag = "e1", !.att = parts[p].attempt])
    /\ UNCHANGED <<stores, worker, poller, issued, up>>

\* makeRequest("/files/record-chunk", ...): the check of the signal, then fetch
recordChunk_fetch(p) ==
    /\ parts[p].pc = "try"
    /\ IF up.aborted
          THEN /\ parts' = [parts EXCEPT ![p].pc = "threw", ![p].err = Cancelled]
               /\ UNCHANGED reqs
          ELSE /\ parts' = [parts EXCEPT ![p].pc = "wait"]
               /\ Send([NewReq EXCEPT !.op = "recordChunk", !.from = "part", !.part = p,
                                      !.fileId = fileId, !.chunkIndex = p - 1,
                                      !.etag = "e1", !.att = parts[p].attempt])
    /\ UNCHANGED <<stores, worker, poller, issued, up>>

\* Math.round((uploadedChunks / this.numParts) * 100)
percentage(uploadedChunks, total) == (200 * uploadedChunks + total) \div (2 * total)

\* Mutant of updateProgress: the part number is reported as the count.
updateProgressByPart(u, p) ==
    [u EXCEPT !.completedChunks = @ + 1,
              !.reports = Append(@, [uploadedChunks |-> p,
                                     totalChunks |-> numParts(u.size),
                                     percentage |-> percentage(p, numParts(u.size))])]

\* uploadChunk(p): completedChunks++; this.updateProgress(completedChunks)
updateProgress(u, p) ==
    [u EXCEPT !.completedChunks = @ + 1,
              !.reports = Append(@, [uploadedChunks |-> u.completedChunks + 1,
                                     totalChunks |-> numParts(u.size),
                                     percentage |-> percentage(u.completedChunks + 1,
                                                               numParts(u.size))])]

\* the record-chunk call is answered: success and the progress report, a retry after
\* the backoff, or the last error thrown
recordChunk_response(p) ==
    /\ parts[p].pc = "wait" /\ ~up.aborted
    /\ \E r \in Answered :
          /\ r.op = "recordChunk" /\ r.from = "part" /\ r.part = p
          /\ r.att = parts[p].attempt
          /\ parts' = [parts EXCEPT ![p] =
                IF r.code = 200 THEN [@ EXCEPT !.pc = "ok"]
                ELSE IF mayRetry(@.attempt)
                        THEN [@ EXCEPT !.pc = "try", !.attempt = @ + 1,
                                       !.slept = delay(parts[p].attempt)]
                        ELSE [@ EXCEPT !.pc = "threw", !.err = "Internal error"]]
          /\ up' = IF r.code = 200 THEN updateProgress(up, p) ELSE up
    /\ UNCHANGED <<stores, reqs, worker, poller, issued>>

\* a part is between the answer of its PUT and the fetch of its record-chunk call:
\* uploadChunk has no await between them, so nothing else of the page runs there
Sending == \E q \in PartNumbers : parts[q].pc = "try" /\ parts[q].attempt = 0

\* await Promise.all(batch) rejects with the error of a part
batch_rejects(p) ==
    /\ up.pc = "batch" /\ ~Sending
    /\ p \in Batch(up, up.i) /\ parts[p].pc = "threw"
    /\ upload_catch(up, parts[p].err, reqs)
    /\ UNCHANGED <<stores, worker, poller, issued, parts>>

\* Mutant of batch_resolves: the complete call follows the first batch.
batch_resolvesOnce ==
    /\ up.pc = "batch"
    /\ \A p \in Batch(up, up.i) : parts[p].pc = "ok"
    /\ LET i == up.i + maxParallelUploads
       IN IF i <= 0
             THEN IF up.aborted
                     THEN upload_catch(up, Cancelled, reqs) /\ UNCHANGED parts
                     ELSE /\ up' = [up EXCEPT !.i = i]
                          /\ parts' = startBatch(up, i)
                          /\ UNCHANGED reqs
             ELSE /\ up' = [up EXCEPT !.pc = "complete", !.req = "try", !.attempt = 0,
                                      !.slept = 0]
                  /\ UNCHANGED <<reqs, parts>>
    /\ UNCHANGED <<stores, worker, poller, issued>>

\* Mutant of batch_resolves: the next batch starts as soon as one part is done.
batch_resolvesEarly ==
    /\ up.pc = "batch"
    /\ \E p \in Batch(up, up.i) : parts[p].pc = "ok"
    /\ LET i == up.i + maxParallelUploads
       IN IF i <= numParts(up.size)
             THEN IF up.aborted
                     THEN upload_catch(up, Cancelled, reqs) /\ UNCHANGED parts
                     ELSE /\ up' = [up EXCEPT !.i = i]
                          /\ parts' = startBatch(up, i)
                          /\ UNCHANGED reqs
             ELSE /\ up' = [up EXCEPT !.pc = "complete", !.req = "try", !.attempt = 0,
                                      !.slept = 0]
                  /\ UNCHANGED <<reqs, parts>>
    /\ UNCHANGED <<stores, worker, poller, issued>>

\* await Promise.all(batch) resolves: the next batch after the check of the signal,
\* or the complete call
batch_resolves ==
    /\ up.pc = "batch"
    /\ \A p \in Batch(up, up.i) : parts[p].pc = "ok"
    /\ LET i == up.i + maxParallelUploads
       IN IF i <= numParts(up.size)
             THEN IF up.aborted
                     THEN upload_catch(up, Cancelled, reqs) /\ UNCHANGED parts
                     ELSE /\ up' = [up EXCEPT !.i = i]
                          /\ parts' = startBatch(up, i)
                          /\ UNCHANGED reqs
             ELSE /\ up' = [up EXCEPT !.pc = "complete", !.req = "try", !.attempt = 0,
                                      !.slept = 0]
                  /\ UNCHANGED <<reqs, parts>>
    /\ UNCHANGED <<stores, worker, poller, issued>>

\* the complete call is answered with success: upload() returns {success: true}
upload_completed ==
    /\ up.pc = "complete" /\ up.req = "wait" /\ ~up.aborted
    /\ \E r \in MainAnswer : r.code = 200
    /\ up' = [up EXCEPT !.pc = "returned", !.req = "none", !.result = "success",
                        !.initiated = ServerInitiated]
    /\ UNCHANGED <<stores, reqs, worker, poller, issued, parts>>

\* abortUpload called from the catch settles (answer, error or the 10 s timeout, all
\* swallowed): upload() returns {success: false, error}
abortUpload_settles ==
    /\ up.pc = "catch"
    /\ up' = returnsFailure(up, up.error)
    /\ UNCHANGED <<stores, reqs, worker, poller, issued, parts>>

\* abortController.abort(): every pending fetch bound to the signal rejects with an
\* AbortError; makeRequest rethrows it as the cancellation, the PUT of uploadChunk
\* lets it through
rejected ==
    [j \in PartNumbers |->
        IF parts[j].pc = "put" THEN [parts[j] EXCEPT !.pc = "threw", !.err = "AbortError"]
        ELSE IF parts[j].pc = "wait" THEN [parts[j] EXCEPT !.pc = "threw", !.err = Cancelled]
        ELSE parts[j]]

\* the uploader with the signal aborted and the history of the first cancellation
signalled(u, kind) ==
    IF u.cancelled # "none" THEN [u EXCEPT !.aborted = TRUE]
    ELSE [u EXCEPT !.aborted = TRUE, !.cancelled = kind, !.known = (u.uploadId # 0),
                   !.mid = (Recorded # {} /\ Cardinality(Recorded) < numParts(u.size))]

InProgress == up.pc \in {"init", "batch", "complete", "catch"}

\* await Promise.all(batch): a part has thrown and the rejection is on its way to the
\* catch of upload(). It gets there in microtasks, before the browser runs another
\* task (a click on cancel, a response, a timer).
Rejecting == up.pc = "batch" /\ \E p \in Batch(up, up.i) : parts[p].pc = "threw"

\* cancel()
cancel ==
    /\ InProgress /\ ~up.aborted /\ ~Rejecting
    /\ parts' = rejected
    /\ IF up.req = "wait"
          THEN upload_catch(signalled(up, "cancel"), Cancelled, reqs)
          ELSE up' = signalled(up, "cancel") /\ UNCHANGED reqs
    /\ UNCHANGED <<stores, worker, poller, issued>>

\* Mutant of cancelWithCleanup: the signal is aborted and no abort is sent.
cancelWithCleanupNoAbort ==
    /\ InProgress /\ ~Rejecting
    /\ parts' = rejected
    /\ IF up.req = "wait"
          THEN upload_catch(signalled(up, "cleanup"), Cancelled, reqs)
          ELSE up' = signalled(up, "cleanup") /\ UNCHANGED reqs
    /\ UNCHANGED <<stores, worker, poller, issued>>

\* cancelWithCleanup(): abort(), then abortUpload(this.uploadId) unless it was called
\* before or there is no uploadId
cancelWithCleanup ==
    /\ InProgress /\ ~Rejecting
    /\ parts' = rejected
    /\ LET u == signalled(up, "cleanup")
           sent == IF up.uploadId # 0 /\ ~up.abortCalled
                      THEN reqs (+) SetToBag({[NewReq EXCEPT !.op = "abort", !.from = "cancel",
                                                 !.fileId = fileId, !.uploadId = up.uploadId]})
                      ELSE reqs
           v == IF up.uploadId # 0 THEN [u EXCEPT !.abortCalled = TRUE] ELSE u
       IN IF up.req = "wait"
             THEN upload_catch(v, Cancelled, sent)
             ELSE up' = v /\ reqs' = sent
    /\ UNCHANGED <<stores, worker, poller, issued>>

\* Mutant of cancelUpload_released: the page keeps the uploader after upload() returned
\* and the click runs cancelWithCleanup() on it.
cancelUpload_retained ==
    /\ up.pc = "returned" /\ ~up.late
    /\ IF up.uploadId # 0 /\ ~up.abortCalled
          THEN /\ up' = [up EXCEPT !.late = TRUE, !.aborted = TRUE, !.abortCalled = TRUE]
               /\ Send([NewReq EXCEPT !.op = "abort", !.from = "cancel",
                                      !.fileId = fileId, !.uploadId = up.uploadId])
          ELSE /\ up' = [up EXCEPT !.late = TRUE, !.aborted = TRUE]
               /\ UNCHANGED reqs
    /\ UNCHANGED <<stores, worker, poller, issued, parts>>

\* the user cancels after upload() returned: startUpload's finally has set
\* uploaderRef.current = null, and cancelUpload (if (uploaderRef.current)) calls nothing
cancelUpload_released ==
    /\ up.pc = "returned" /\ ~up.late
    /\ up' = [up EXCEPT !.late = TRUE]
    /\ UNCHANGED <<stores, reqs, worker, poller, issued, parts>>

\* ------------------------------------------------------------ part sizing

\* Parts of the largest file whose parts are cut one by one.
MaxParts == 7

\* chunkSize values a FileUploader is constructed with; the callers pass 5 * 1024 * 1024
PartSizes == {1, 2, 3, CHUNK_SIZE}

\* file sizes that are cut: a few bytes, and sizes around the multiples of CHUNK_SIZE
CutFileSizes ==
    (1 .. MaxParts) \cup {CHUNK_SIZE - 1, CHUNK_SIZE, CHUNK_SIZE + 1, 2 * CHUNK_SIZE,
                   12 * 1024 * 1024, 3 * CHUNK_SIZE + 1}

\* this.numParts = Math.ceil(file.size / chunkSize)
ceilParts(size, chunkSize) ==
    IF size % chunkSize = 0 THEN size \div chunkSize ELSE size \div chunkSize + 1

Min(a, b) == IF a < b THEN a ELSE b

\* Mutant of getPart: the part number taken as a 0-based index.
getPartFromZero(size, chunkSize, partNumber) ==
    LET start == partNumber * chunkSize
    IN [start |-> start, end |-> Min(start + chunkSize, size)]

\* getPart(partNumber): the byte range file.slice(start, end) is given
getPart(size, chunkSize, partNumber) ==
    LET start == (partNumber - 1) * chunkSize
    IN [start |-> start, end |-> Min(start + chunkSize, size)]

\* Blob.slice(start, end).size: the range is clamped to the file
sliceSize(size, range) ==
    LET from == Min(range.start, size)
        to == Min(range.end, size)
    IN IF to > from THEN to - from ELSE 0

\* a FileUploader that cuts its parts in the order of their numbers; cut holds the
\* sizes of the Blobs getPart returned
Cutter(size, chunkSize) ==
    [pc |-> "cut", size |-> size, chunkSize |-> chunkSize,
     numParts |-> ceilParts(size, chunkSize), cut |-> <<>>]

\* uploadChunk(partNumber): const chunk = this.getPart(partNumber)
uploadChunk_getPart ==
    /\ up.pc = "cut" /\ Len(up.cut) < up.numParts
    /\ up' = [up EXCEPT !.cut = Append(@, sliceSize(up.size,
                                           getPart(up.size, up.chunkSize, Len(@) + 1)))]
    /\ UNCHANGED <<stores, reqs, worker, poller, issued, parts>>

\* upload(): the initiate is sent with file_size: this.file.size.toString()
upload_getUploadUrls ==
    /\ up.pc = "cut" /\ Requests = {}
    /\ Send([NewReq EXCEPT !.op = "getUploadUrls", !.from = "main", !.fileId = fileId,
                           !.size = up.size])
    /\ UNCHANGED <<stores, worker, poller, issued, up, parts>>

\* ------------------------------------------------------------ claims

\* n = ceil(size / CHUNK_SIZE), stated without the division
IsCeil(n, size) == (n - 1) * CHUNK_SIZE < size /\ size <= n * CHUNK_SIZE

RowsOfKey(k) == {c \in chunks : c.s3Key = k}

InitiateAnswers == {r \in Answered : r.op = "getUploadUrls"}

\* the file size the initiate that created row m was given (0: no such initiate)
DeclaredSize(m) ==
    LET made == {r \in InitiateAnswers : r.code = 200 /\ r.s3Key = m.s3Key /\ r.fileId = m.fileId}
    IN IF made = {} THEN 0 ELSE (CHOOSE r \in made : TRUE).size

\* C7: an initiate that fails after the multipart upload was opened leaves no Session
\* entry for its uploadId, no FileMetadata or Chunk rows and no open multipart upload.
C7_NoOrphanAfterFailedInitiate ==
    \A r \in InitiateAnswers :
        (r.code # 200 /\ r.uploadId # 0) =>
            /\ redis[r.uploadId] = 0
            /\ MetaByKey(r.s3Key) = {}
            /\ RowsOfKey(r.s3Key) = {}
            /\ s3[r.uploadId] # "open"

C9_ChunkRows ==
    /\ \A m \in metadata :
          LET n == Cardinality(ChunksOf(m.fileId))
          IN /\ IsCeil(n, DeclaredSize(m))
             /\ \A i \in 0 .. n - 1 : Cardinality(ChunkAt(m.fileId, i)) = 1
             /\ \A c \in ChunksOf(m.fileId) : c.chunkIndex \in 0 .. n - 1
    /\ \A c \in chunks : MetaOf(c.fileId) # {}
    /\ \A c \in chunks :
          \/ c.status = "PENDING" /\ c.checksum = ""
          \/ /\ c.status = "COMPLETED"
             /\ \E r \in Answered : /\ r.op = "recordChunk" /\ r.code = 200
                                     /\ r.fileId = c.fileId /\ r.chunkIndex = c.chunkIndex
                                     /\ r.etag = c.checksum
    /\ \A r \in InitiateAnswers :
          r.code = 200 =>
            /\ IsCeil(r.urls, r.size)
            /\ \A m \in MetaByKey(r.s3Key) : r.urls = Cardinality(ChunksOf(m.fileId))

\* initiate of a 12 MB file: 3 PENDING chunk rows and 3 URLs
C9_Witness ==
    \E r \in InitiateAnswers :
        /\ r.code = 200 /\ r.size = 12 * 1024 * 1024 /\ r.urls = 3
        /\ Cardinality(ChunksOf(r.fileId)) = 3
        /\ \A c \in ChunksOf(r.fileId) : c.status = "PENDING" /\ c.s3Key = r.s3Key

\* request r takes a step of its handler in this transition
Runs(r) == r \in InFlight /\ CopiesIn(r, reqs') < CopiesIn(r, reqs)

\* the response written in this transition, if one is
AnswerNow == {a \in BagToSet(reqs') : a.pc = "done" /\ CopiesIn(a, reqs') > CopiesIn(a, reqs)}

At(c, f, i) == c.fileId = f /\ c.chunkIndex = i

\* C10: a recordChunk for an existing chunk is answered with success and leaves exactly
\* one row for that index, COMPLETED and with the checksum of this (the last) call,
\* whatever checksum the row held; every other row and store is untouched, so a call
\* repeating the checksum changes nothing; and only a recordChunk changes a Chunk row.
C10_LastWriteWins ==
    [][/\ \A r \in Requests :
            (Runs(r) /\ r.op = "recordChunk" /\ ChunkAt(r.fileId, r.chunkIndex) # {}) =>
                /\ AnswerNow # {}
                /\ \A a \in AnswerNow : a.code = 200
                /\ \E c \in chunks' :
                      /\ {d \in chunks' : At(d, r.fileId, r.chunkIndex)} = {c}
                      /\ c.status = "COMPLETED"
                      /\ c.checksum = r.etag
                /\ {d \in chunks' : ~At(d, r.fileId, r.chunkIndex)}
                      = {d \in chunks : ~At(d, r.fileId, r.chunkIndex)}
                /\ (\A c \in ChunkAt(r.fileId, r.chunkIndex) :
                        c.status = "COMPLETED" /\ c.checksum = r.etag) => chunks' = chunks
                /\ UNCHANGED <<metadata, redis, s3>>
       /\ \A c \in chunks :
            \/ c \in chunks'
            \/ {d \in chunks' : At(d, c.fileId, c.chunkIndex)} = {}
            \/ \E r \in Requests : /\ Runs(r) /\ r.op = "recordChunk"
                                    /\ At(c, r.fileId, r.chunkIndex)]_vars

\* a chunk recorded twice with different checksums, both calls answered with success
C10_Witness ==
    \E c \in chunks : \E r1, r2 \in Answered :
        /\ r1.op = "recordChunk" /\ r2.op = "recordChunk"
        /\ r1.code = 200 /\ r2.code = 200
        /\ At(c, r1.fileId, r1.chunkIndex) /\ At(c, r2.fileId, r2.chunkIndex)
        /\ r1.etag # r2.etag
        /\ c.status = "COMPLETED" /\ c.checksum = r2.etag

AbortsOf(u) == {r \in Requests : r.op = "abort" /\ r.uploadId = u}

\* the only initiates ever requested for the file of upload u are u's own
OnlyInitiateOf(u) ==
    \A r \in Requests :
        (r.op = "getUploadUrls" /\ r.fileId = issued[u]) => r.uploadId = u

\* C3: after a successful initiate (and no other initiate for its fileId), every abort
\* of the upload is answered with success, and once two aborts have been answered
\* there is no FileMetadata row, no Chunk row and no Session entry for the upload.
C3_AbortTwice ==
    \A u \in UploadIds :
        (issued[u] # "" /\ OnlyInitiateOf(u)) =>
            /\ \A a \in AbortsOf(u) \cap Answered : a.code = 200
            /\ Copies(AbortsOf(u) \cap Answered) >= 2 =>
                  /\ MetaOf(issued[u]) = {}
                  /\ ChunksOf(issued[u]) = {}
                  /\ redis[u] = 0

\* two aborts of one upload answered, the first deleted the rows and the second found
\* none
C3_Witness ==
    \E u \in UploadIds : \E a1, a2 \in AbortsOf(u) \cap Answered :
        /\ issued[u] # "" /\ OnlyInitiateOf(u)
        /\ a1.err = "none" /\ a2.err = "already"
        /\ MetaOf(issued[u]) = {} /\ redis[u] = 0

\* C6: a recordChunk never creates or removes a row, and one that executes after a
\* concurrent abort deleted the rows of its fileId is answered NOT_FOUND (404), not
\* with an internal failure.
C6_CleanNotFound ==
    [][\A r \in Requests :
          (Runs(r) /\ r.op = "recordChunk") =>
              /\ {<<c.fileId, c.chunkIndex>> : c \in chunks'}
                    = {<<c.fileId, c.chunkIndex>> : c \in chunks}
              /\ metadata' = metadata
              /\ (/\ ChunkAt(r.fileId, r.chunkIndex) = {}
                  /\ \E a \in InFlight : /\ a.op = "abort" /\ a.fileId = r.fileId
                                          /\ a.pc = "deleted")
                    => \A a \in AnswerNow : a.code = 404]_vars

\* the status of every row that stays moves only UPLOADING -> UPLOADED or FAILED
StatusMoves ==
    \A m \in metadata : \A m2 \in metadata' :
        (m2.fileId = m.fileId /\ m2.s3Key = m.s3Key) =>
            \/ m2.status = m.status
            \/ m.status = "UPLOADING" /\ m2.status \in {"UPLOADED", "FAILED"}

Uploaded(f) == \E m \in MetaOf(f) : m.status = "UPLOADED"

\* a recordChunk of an existing chunk of an UPLOADED file is answered without error
RecordChunkOnUploadedOk ==
    \A r \in Requests :
        (/\ Runs(r) /\ r.op = "recordChunk" /\ Uploaded(r.fileId)
         /\ ChunkAt(r.fileId, r.chunkIndex) # {}) => \A a \in AnswerNow : a.code = 200

\* an object-created event for an UPLOADED row is processed without error
ReconcilerOnUploadedOk ==
    (worker.pc = "found" /\ \E m \in MetaByKey(worker.s3Key) : m.status = "UPLOADED")
        => worker'.result # "threw"

\* C2 as stated: status only moves UPLOADING -> UPLOADED or FAILED, and on an UPLOADED
\* row no complete, recordChunk or reconciler event changes the status or produces an
\* error.
C2_TerminalNoError ==
    [][/\ StatusMoves
       /\ RecordChunkOnUploadedOk
       /\ ReconcilerOnUploadedOk
       /\ \A r \in Requests :
            (Runs(r) /\ r.op = "complete" /\ Uploaded(r.fileId)) =>
                \A a \in AnswerNow : a.code = 200]_vars

\* C2 amended: status only moves UPLOADING -> UPLOADED or FAILED; on an UPLOADED row
\* recordChunk and reconciler events (duplicates included) produce no error and no
\* event changes the status; a complete on it that fails is rejected with 404 (upload
\* session missing) or 500 (multipart upload no longer open) and writes nothing.
C2_Terminal ==
    [][/\ StatusMoves
       /\ RecordChunkOnUploadedOk
       /\ ReconcilerOnUploadedOk
       /\ \A r \in Requests :
            (Runs(r) /\ r.op = "complete" /\ Uploaded(r.fileId)) =>
                \A a \in AnswerNow :
                    \/ a.code = 200
                    \/ /\ a.code = 404 /\ a.err = "session" /\ UNCHANGED stores
                    \/ /\ a.code = 500 /\ a.err = "NoSuchUpload" /\ UNCHANGED stores]_vars

\* a completed upload whose object-created event was processed and whose complete was
\* repeated: the row is UPLOADED, the repeat was rejected
C2_Witness ==
    \E m \in metadata : \E r1, r2 \in Answered :
        /\ m.status = "UPLOADED"
        /\ worker.result = "updated"
        /\ r1.op = "complete" /\ r1.fileId = m.fileId /\ r1.code = 200
        /\ r2.op = "complete" /\ r2.fileId = m.fileId /\ r2.code # 200

\* C1: an upload() that ended in failure or cancellation after the coordinator had
\* committed its initiate has sent an abort, and once an abort of the uploader has been
\* answered there is no FileMetadata row, no Chunk row, no Session entry and no open
\* multipart upload for its fileId and uploadId.
C1_FailureEndsWithAbort ==
    /\ (up.pc = "returned" /\ up.result = "fail" /\ up.initiated) => ClientAborts # {}
    /\ \A a \in ClientAborts \cap Answered :
          /\ MetaOf(fileId) = {} /\ ChunksOf(fileId) = {}
          /\ redis[a.uploadId] = 0
          /\ s3[a.uploadId] # "open"

\* C4: the uploader sends at most one abort request, and an upload() that returned
\* after a cancellation made when uploadId was set has sent exactly one, with that
\* uploadId.
C4_AbortExactlyOnce ==
    /\ Copies(ClientAborts) <= 1
    /\ (up.pc = "returned" /\ up.cancelled # "none" /\ up.known) =>
          /\ Copies(ClientAborts) = 1
          /\ \A a \in ClientAborts : a.uploadId = up.uploadId

\* C5: after cancelWithCleanup() called when at least one and not all chunks were
\* recorded, exactly one abort request was sent (with the uploadId), upload() never
\* returns success, and once the abort is answered there is no Session entry for the
\* uploadId.
C5_CancelMidUpload ==
    (up.cancelled = "cleanup" /\ up.mid) =>
        /\ Copies(ClientAborts) = 1
        /\ \A a \in ClientAborts : a.uploadId = up.uploadId /\ a.fileId = fileId
        /\ up.result # "success"
        /\ up.pc = "returned" => up.result = "fail"
        /\ (ClientAborts \cap Answered # {}) => redis[up.uploadId] = 0

\* cancelled with one to three of four chunks recorded: upload() returned the failure
\* and the abort sent by cancelWithCleanup() was answered
C5_Witness ==
    /\ up.cancelled = "cleanup" /\ up.mid
    /\ up.pc = "returned" /\ up.result = "fail"
    /\ \E a \in ClientAborts \cap Answered : a.from = "cancel" /\ a.err = "none"
    /\ redis[up.uploadId] = 0

\* C11: a recordChunk for a (fileId, chunkIndex) that has no Chunk row is answered
\* NOT_FOUND (404) and leaves every store unchanged.
C11_UnknownChunkNotFound ==
    [][\A r \in Requests :
          (Runs(r) /\ r.op = "recordChunk" /\ ChunkAt(r.fileId, r.chunkIndex) = {}) =>
              /\ AnswerNow # {}
              /\ \A a \in AnswerNow : a.code = 404
              /\ UNCHANGED stores]_vars

\* C12: a complete for an uploadId without Session entry is answered 404 on its
\* first step: it makes no object-store call and changes no FileMetadata row, Chunk
\* row or Session entry.
C12_SessionMissing ==
    [][\A r \in Requests :
          (Runs(r) /\ r.op = "complete" /\ r.pc = "recv" /\ redis[r.uploadId] = 0) =>
              /\ AnswerNow # {}
              /\ \A a \in AnswerNow : a.code = 404 /\ a.err = "session"
              /\ UNCHANGED stores]_vars

\* a complete answered 404 for an upload whose Session entry has expired: its rows are
\* there, its multipart upload is open and no abort was ever requested
C12_Witness ==
    \E r \in Answered :
        /\ r.op = "complete" /\ r.code = 404
        /\ s3[r.uploadId] = "open"
        /\ \E m \in MetaByKey(r.uploadId) : m.status = "UPLOADING"
        /\ \A a \in Requests : a.op # "abort"

\* r is the only complete of its upload and no abort was requested for its file
Alone(r) ==
    /\ CopiesIn(r, reqs) = 1
    /\ \A q \in Requests :
          /\ (q.op = "complete" /\ q.uploadId = r.uploadId) => q = r
          /\ q.op = "abort" => q.fileId # r.fileId

StepOf(r) == {q \in BagToSet(reqs') : CopiesIn(q, reqs') > CopiesIn(q, reqs)}

\* C14: complete never writes a Chunk row and none of its steps depends on one: with
\* a Session entry it goes on to the object store, there it is finalized or rejected
\* by the object store alone, and it marks the row whenever the row exists; so a
\* complete with only some chunks recorded succeeds and the file is UPLOADED.
C14_CompleteIgnoresChunks ==
    [][\A r \in Requests :
          (Runs(r) /\ r.op = "complete") =>
              /\ chunks' = chunks
              /\ \A q \in StepOf(r) :
                    /\ r.pc = "recv" => (q.pc = "cached" <=> redis[r.uploadId] # 0)
                    /\ (r.pc = "cached" /\ q.err = "NoSuchUpload") => s3[r.uploadId] # "open"
                    /\ r.pc = "finalized" => (q.pc = "marked" <=> MetaOf(r.fileId) # {})
                    /\ r.pc = "marked" => q.code = 200]_vars

\* a complete answered with success for a file with a recorded and a PENDING chunk
C14_Witness ==
    \E r \in Answered :
        /\ r.op = "complete" /\ r.code = 200
        /\ \E m \in MetaByKey(r.uploadId) : m.fileId = r.fileId /\ m.status = "UPLOADED"
        /\ \E c \in ChunksOf(r.fileId) : c.status = "PENDING"
        /\ \E c \in ChunksOf(r.fileId) : c.status = "COMPLETED"

\* C15: an abort answered with success leaves no Session entry for its uploadId,
\* also when there was no FileMetadata row for its fileId.
C15_AbortDeletesSession ==
    [][\A r \in Requests :
          (Runs(r) /\ r.op = "abort") =>
              \A a \in AnswerNow : a.code = 200 => redis'[r.uploadId] = 0]_vars

\* the abort of r's multipart upload fails in this transition: the upload was open
\* under r's key and still is when r is answered
ObjectStoreFailed(r) ==
    /\ r.pc = "deleted" /\ r.s3Key = r.uploadId
    /\ s3[r.uploadId] = "open" /\ s3'[r.uploadId] = "open"

\* C16: abort is answered with an error exactly when a store failed unexpectedly (the
\* session store or the durable store threw, or the object store failed to abort an
\* open multipart upload); whatever is already gone is no error.
C16_AbortErrors ==
    [][\A r \in Requests :
          (Runs(r) /\ r.op = "abort") =>
              \A a \in AnswerNow :
                  a.code # 200 <=> (a.err = "Internal error" \/ ObjectStoreFailed(r))]_vars

\* C17: when the uploader's initiate succeeds on its third attempt, the coordinator
\* is as after a single successful initiate: no multipart upload and no Session entry
\* other than those of the uploadId that was returned.
C17_OnlyLastAttemptVisible ==
    \A r \in Answered :
        (/\ r.from = "main" /\ r.op = "getUploadUrls"
         /\ r.att = retries - 1 /\ r.code = 200) =>
            \A u \in UploadIds \ {r.uploadId} : s3[u] = "none" /\ redis[u] = 0

\* the requests of the uploader, and those of one call through makeRequest
Sent == {r \in Requests : r.from \in {"main", "part"} /\ r.op # "abort"}

SameCall(r, q) == r.from = q.from /\ r.op = q.op /\ r.part = q.part

\* C18: makeRequest sends at most 3 attempts for a call, each one once and only after
\* the one before was answered with a failure, having slept 1 s before the second
\* and 2 s before the third; nothing is sent after a successful answer; and an
\* upload() that returned after three failed attempts of a call returned the failure.
C18_Retries ==
    /\ \A r \in Sent :
          /\ r.att \in 0 .. retries - 1
          /\ CopiesIn(r, reqs) = 1
          /\ r.att > 0 => \E q \in Answered :
                            SameCall(r, q) /\ q.att = r.att - 1 /\ q.code # 200
          /\ (r.pc = "done" /\ r.code = 200) =>
                \A q \in Sent : SameCall(r, q) => q.att <= r.att
    /\ up.slept = (IF up.attempt = 0 THEN 0 ELSE IF up.attempt = 1 THEN 1000 ELSE 2000)
    /\ \A p \in PartNumbers :
          parts[p].slept = (IF parts[p].attempt = 0 THEN 0
                            ELSE IF parts[p].attempt = 1 THEN 1000 ELSE 2000)
    /\ (up.pc = "returned" /\ \E r \in Sent \cap Answered :
                                  r.att = retries - 1 /\ r.code # 200 /\ r.from = "main")
          => up.result = "fail" /\ up.error # "none"
    /\ \A p \in PartNumbers :
          (\E r \in Sent \cap Answered : r.part = p /\ r.att = retries - 1 /\ r.code # 200)
              => up.result # "success"

\* the initiate answered 500 three times, each attempt after its backoff: upload()
\* returned the failure
C18_Witness ==
    /\ up.pc = "returned" /\ up.result = "fail" /\ up.error = "Internal error"
    /\ up.attempt = retries - 1 /\ up.slept = 2000
    /\ \A k \in 0 .. retries - 1 : \E r \in Sent \cap Answered :
          r.op = "getUploadUrls" /\ r.att = k /\ r.code = 500

\* C19: a call the coordinator answered 400 is not sent again.
C19_ValidationNotRetried ==
    \A r \in Sent \cap Answered :
        r.code = 400 => \A q \in Sent : SameCall(r, q) => q.att <= r.att

\* parts whose uploadChunk has started and not resolved
PartsInFlight == {p \in PartNumbers : parts[p].pc \in {"put", "try", "wait"}}

\* C20: at most maxParallelUploads parts are in flight, and a part of a later batch
\* has started only when every part of the batches before has resolved.
C20_Batches ==
    /\ Cardinality(PartsInFlight) <= maxParallelUploads
    /\ \A p, q \in PartNumbers :
          (parts[p].pc # "idle"
           /\ (q - 1) \div maxParallelUploads < (p - 1) \div maxParallelUploads)
              => parts[q].pc \in {"ok", "threw"}

\* the second batch in flight after the three parts of the first were recorded
C20_Witness ==
    /\ \A q \in 1 .. maxParallelUploads : parts[q].pc = "ok"
    /\ parts[maxParallelUploads + 1].pc = "put"
    /\ Cardinality(Recorded) = maxParallelUploads

\* errors of a part that are not the cancellation: the PUT failed, was answered not ok
\* or without an ETag, or record-chunk failed after its retries
PartFailures == {"Failed to upload chunk", "Internal error"}

FailedParts == {p \in PartNumbers : parts[p].pc = "threw" /\ parts[p].err \in PartFailures}

Completes == {r \in Requests : r.op = "complete" /\ r.from = "main"}

\* upload() left makeRequest("/files/complete-upload") with the error of its last attempt
CompleteFailed ==
    /\ up.pc \in {"catch", "returned"} /\ up.error = "Internal error"
    /\ \E r \in Completes \cap Answered : r.att = retries - 1 /\ r.code # 200

\* C22: a complete call is sent only when every part was PUT and its record-chunk call
\* answered with success; upload() that returns success has sent no abort, and when the
\* complete call failed it has sent one abort and returns the failure.
C22_CompleteAfterAllParts ==
    /\ Completes # {} =>
          \A p \in 1 .. numParts(up.size) :
             /\ parts[p].pc = "ok"
             /\ \E q \in Answered : /\ q.op = "recordChunk" /\ q.from = "part"
                                     /\ q.part = p /\ q.code = 200
    /\ up.result = "success" =>
          /\ ClientAborts = {}
          /\ \E r \in Completes \cap Answered : r.code = 200
    /\ CompleteFailed =>
          /\ Copies(ClientAborts) = 1
          /\ \A a \in ClientAborts : a.uploadId = up.uploadId /\ a.fileId = fileId
          /\ up.result # "success"
          /\ up.pc = "returned" => up.result = "fail"

\* the complete call of a four-part file failed three times: upload() returned the
\* failure after the abort of its catch
C22_Witness ==
    /\ CompleteFailed /\ up.pc = "returned" /\ up.cancelled = "none"
    /\ numParts(up.size) = 4
    /\ \E a \in ClientAborts \cap Answered : a.from = "catch"

\* the number of calls made through makeRequest in the bag
Wrapped(bag) ==
    BagCardinality([r \in {q \in BagToSet(bag) : q.from \in {"main", "part"}} |-> bag[r]])

\* C23: with the signal aborted no fetch bound to it is pending, and from then on no
\* call is sent through makeRequest, no PUT is started and no batch is started.
C23_CancelStopsWork ==
    /\ [](up.aborted =>
            /\ up.req # "wait"
            /\ \A p \in PartNumbers : parts[p].pc \notin {"put", "wait"})
    /\ [][up.aborted =>
            /\ Wrapped(reqs') = Wrapped(reqs)
            /\ up'.i = up.i
            /\ \A p \in PartNumbers : parts'[p].pc \in {parts[p].pc, "threw"}]_vars

\* cancel() during the backoff of a record-chunk call: the attempt after the wait was
\* not sent and the part threw the cancellation
C23_Witness ==
    /\ up.cancelled = "cancel"
    /\ \E p \in PartNumbers :
          /\ parts[p].pc = "threw" /\ parts[p].err = Cancelled /\ parts[p].attempt >= 1
          /\ \A q \in Requests :
                (q.op = "recordChunk" /\ q.part = p) => q.att < parts[p].attempt

\* the state of the upload attempt
Phase(u) ==
    CASE u.pc = "idle" -> "IDLE"
      [] u.pc = "init" -> "INITIATING"
      [] u.pc = "batch" -> "UPLOADING"
      [] u.pc = "complete" -> "COMPLETING"
      [] u.pc = "catch" -> "ABORTING"
      [] u.pc = "returned" ->
            IF u.result = "success" THEN "DONE"
            ELSE IF u.error = Cancelled THEN "CANCELLED" ELSE "FAILED"

PhaseMoves ==
    {<<"IDLE", "INITIATING">>,
     <<"INITIATING", "UPLOADING">>, <<"INITIATING", "FAILED">>, <<"INITIATING", "CANCELLED">>,
     <<"UPLOADING", "COMPLETING">>, <<"UPLOADING", "ABORTING">>, <<"UPLOADING", "FAILED">>,
     <<"UPLOADING", "CANCELLED">>,
     <<"COMPLETING", "DONE">>, <<"COMPLETING", "ABORTING">>, <<"COMPLETING", "FAILED">>,
     <<"COMPLETING", "CANCELLED">>,
     <<"ABORTING", "FAILED">>}

C25_Progress ==
    LET reports == up.reports
    IN /\ Len(reports) = Cardinality({p \in PartNumbers : parts[p].pc = "ok"})
       /\ \A k \in 1 .. Len(reports) :
             /\ reports[k].uploadedChunks = k
             /\ reports[k].totalChunks = numParts(up.size)
             /\ reports[k].uploadedChunks <= reports[k].totalChunks
             /\ reports[k].percentage <= 100
             /\ k > 1 => reports[k - 1].percentage <= reports[k].percentage
       /\ Len(reports) = numParts(up.size) => reports[Len(reports)].percentage = 100

\* two reports, and part 3 was recorded before part 1
C25_Witness ==
    /\ Len(up.reports) = 2
    /\ parts[3].pc = "ok" /\ parts[1].pc \in {"put", "try", "wait"}
    /\ up.reports[2].percentage = 50

\* the poll loop handles the first message of its batch in this step
Handles == poller.pc = "batch" /\ poller'.batch # poller.batch

\* C26: a message leaves the queue only in the step that handles it and only when its
\* processing did not throw; when it threw, deleteMessage is not called, the message
\* stays in the queue, and the loop goes on with the rest of the batch.
C26_DeleteAfterSuccess ==
    [][/\ poller.queue \ poller'.queue # {} =>
            /\ Handles
            /\ poller.queue \ poller'.queue = {Head(poller.batch)}
            /\ worker'.result # "threw"
       /\ Handles =>
            /\ poller'.batch = Tail(poller.batch)
            /\ poller'.pc = IF Len(poller.batch) > 1 THEN "batch" ELSE "poll"
            /\ poller'.last.end = "asked" => worker'.result # "threw"
            /\ worker'.result = "threw" =>
                  /\ poller'.last.end = "left"
                  /\ Head(poller.batch) \in poller'.queue]_vars

\* the update of the first message of a batch threw: the message is still in the
\* queue and the loop is at the second message
C26_Witness ==
    /\ poller.pc = "batch" /\ Len(poller.batch) = 1
    /\ worker.result = "threw" /\ poller.last.end = "left"
    /\ poller.last.id # Head(poller.batch).id
    /\ \E m \in poller.queue : m.id = poller.last.id

\* the first message of the batch names an object no metadata row has the key of
Unmatched ==
    /\ poller.pc = "batch" /\ worker.pc = "idle"
    /\ Actionable(Head(poller.batch)) # {}
    /\ \A record \in Actionable(Head(poller.batch)) : MetaByKey(record.key) = {}

\* C27: when the durable store answers the lookup of an event whose key matches no
\* row, the event is skipped: no store changes, processing ends without a throw,
\* deleteMessage is called and the message leaves the queue unless that call fails.
C27_SkipUnknownKey ==
    [][(Unmatched /\ (Handles \/ worker' # worker) /\ worker'.result # "threw") =>
          /\ UNCHANGED stores
          /\ worker'.pc = "idle" /\ worker'.result = "skipped"
          /\ Handles /\ poller'.last.end = "asked"
          /\ \/ poller'.queue = poller.queue \ {Head(poller.batch)}
             \/ /\ poller'.queue = poller.queue
                /\ poller'.failures = poller.failures + 1]_vars

\* the event of an object whose row an abort deleted was skipped and its message
\* deleted
C27_Witness ==
    /\ worker.result = "skipped" /\ poller.last.end = "asked"
    /\ poller.last.shape = "Records"
    /\ \A m \in poller.queue : m.id # poller.last.id
    /\ metadata = {}
    /\ \E a \in Answered : a.op = "abort" /\ a.code = 200 /\ s3[a.uploadId] = "completed"

\* the first message of the batch carries no record with an object key
NothingToDo ==
    /\ poller.pc = "batch" /\ worker.pc = "idle"
    /\ Actionable(Head(poller.batch)) = {}

\* C28: a message that is an s3:TestEvent, is not JSON or has a shape no recognizer
\* matches is handled in one step that changes no store and calls deleteMessage; the
\* message leaves the queue unless that call fails.
C28_NoActionableData ==
    [][(NothingToDo /\ (Handles \/ worker' # worker)) =>
          /\ Head(poller.batch).body.shape \in {"TestEvent", "invalid", "unknown"}
          /\ UNCHANGED stores
          /\ worker'.pc = "idle" /\ worker'.result = "none"
          /\ Handles /\ poller'.last.end = "asked"
          /\ \/ poller'.queue = poller.queue \ {Head(poller.batch)}
             \/ /\ poller'.queue = poller.queue
                /\ poller'.failures = poller.failures + 1]_vars

\* a body that is not JSON was handled with a file uploading: its message is deleted
\* and the row is as it was
C28_Witness ==
    /\ poller.last.shape = "invalid" /\ poller.last.end = "asked"
    /\ \A m \in poller.queue : m.id # poller.last.id
    /\ \E m \in metadata : m.status = "UPLOADING"

InQueue(i) == \E m \in poller.queue : m.id = i

InBatch(i) == \E k \in 1 .. Len(poller.batch) : poller.batch[k].id = i

\* C29: the poll loop that waits after a failed receive polls again, and every message
\* in the queue is received at some time.
C29_PollsAgain ==
    /\ (poller.pc = "wait") ~> (poller.pc = "poll")
    /\ \A i \in 1 .. MaxMessages : InQueue(i) ~> InBatch(i)

\* a receive failed before any message was handled, and the loop has received a
\* message since
C29_Witness ==
    /\ poller.failures >= 1 /\ poller.last.end = "none"
    /\ poller.pc = "batch" /\ Len(poller.batch) >= 1

\* C30: with no store failing, an initiate of a valid size is refused only when
\* another initiate was made for the same fileId; and the files initiated at the same
\* time each have their Chunk rows 0 .. count - 1.
C30_FilesIndependent ==
    /\ \A r \in InitiateAnswers :
          (r.code # 200 /\ r.size > 0 /\ r.size <= MAX_FILE_SIZE) =>
              \/ reqs[r] > 1
              \/ \E q \in Requests \ {r} : q.op = "getUploadUrls" /\ q.fileId = r.fileId
    /\ \A m \in metadata :
          \A i \in 0 .. numParts(DeclaredSize(m)) - 1 :
             Cardinality(ChunkAt(m.fileId, i)) = 1

RECURSIVE SumSeq(_)
SumSeq(s) == IF s = <<>> THEN 0 ELSE Head(s) + SumSeq(Tail(s))

\* the sizes of the Chunk rows of file f, in the order of their indexes
RowSizes(f) ==
    [j \in 1 .. Cardinality(ChunksOf(f)) |->
        IF ChunkAt(f, j - 1) = {} THEN 0 ELSE (CHOOSE c \in ChunkAt(f, j - 1) : TRUE).size]

\* C31: the part count is ceil(size / partSize); every part but the last has length
\* partSize; the lengths of all the parts sum to size; and for the part size the server
\* uses, the parts the client cuts (1-based) are as many and as long as the Chunk rows
\* the server creates (0-based).
C31_PartSizing ==
    up.pc = "cut" =>
       LET n == up.numParts
           P == up.chunkSize
       IN /\ (n - 1) * P < up.size /\ up.size <= n * P
          /\ \A j \in 1 .. Len(up.cut) : j < n => up.cut[j] = P
          /\ Len(up.cut) = n => SumSeq(up.cut) = up.size
          /\ (P = CHUNK_SIZE /\ MetaOf(fileId) # {}) =>
                /\ Cardinality(ChunksOf(fileId)) = n
                /\ \A j \in 1 .. n : Cardinality(ChunkAt(fileId, j - 1)) = 1
                /\ \A j \in 1 .. Len(up.cut) : RowSizes(fileId)[j] = up.cut[j]
                /\ SumSeq(RowSizes(fileId)) = up.size

\* a file of 15 MB + 1 byte was cut into its four parts and its four Chunk rows exist
C31_Witness ==
    /\ up.pc = "cut" /\ up.chunkSize = CHUNK_SIZE /\ up.size = 3 * CHUNK_SIZE + 1
    /\ Len(up.cut) = 4 /\ up.cut[4] = 1
    /\ Cardinality(ChunksOf(fileId)) = 4

\* the body of initiate r fails the preconditions: a field is missing, the size is
\* not a positive number, or it is above MAX_FILE_SIZE
Invalid(r) == r.lacks # {} \/ r.nan \/ r.size <= 0 \/ r.size > MAX_FILE_SIZE

\* C32: an initiate whose body lacks a field, or whose size is not a positive number or
\* is above MAX_FILE_SIZE, is answered 400 in its first step, which changes no store:
\* no multipart upload is opened, no Session entry, FileMetadata row or Chunk row made.
C32_ValidationFirst ==
    /\ [](\A r \in Requests :
             (r.op = "getUploadUrls" /\ Invalid(r)) =>
                 /\ r.pc \in {"recv", "done"}
                 /\ r.uploadId = 0
                 /\ r.pc = "done" => r.code = 400)
    /\ [][\A r \in Requests :
             (r.op = "getUploadUrls" /\ Invalid(r) /\ Runs(r)) =>
                 /\ UNCHANGED stores
                 /\ \A a \in StepOf(r) : a.pc = "done" /\ a.code = 400]_vars

\* initiates without file_name, with a text for a size and with a size over the limit
\* were refused, and no store holds anything
C32_Witness ==
    /\ \E r \in InitiateAnswers : r.lacks = {"file_name"} /\ r.code = 400
    /\ \E r \in InitiateAnswers : r.nan /\ r.code = 400
    /\ \E r \in InitiateAnswers : r.size = MAX_FILE_SIZE + 1 /\ r.code = 400
    /\ metadata = {} /\ chunks = {}
    /\ \A u \in UploadIds : s3[u] = "none" /\ redis[u] = 0

\* complete and abort of one upload are received together
CallCompleteAndAbort(u) ==
    /\ \A r \in Requests : r.op = "getUploadUrls" /\ r.pc = "done"
    /\ issued[u] # ""
    /\ reqs' = reqs (+) SetToBag({[NewReq EXCEPT !.op = "complete", !.fileId = issued[u],
                                                 !.uploadId = u],
                                   [NewReq EXCEPT !.op = "abort", !.fileId = issued[u],
                                                  !.uploadId = u]})
    /\ UNCHANGED <<stores, worker, poller, issued, up, parts>>

\* C33: when the abort and the complete of one upload, received together, have both
\* been answered, either the FileMetadata row is there with status UPLOADED and the
\* object is finalized, or there is no row, no Session entry and no finalized object;
\* and complete has not answered success when no row is left.
C33_AbortCompleteAgree ==
    \A c, a \in Answered :
       (c.op = "complete" /\ a.op = "abort" /\ c.uploadId = a.uploadId) =>
          LET f == c.fileId
              u == c.uploadId
          IN /\ \/ /\ MetaOf(f) # {}
                   /\ \A m \in MetaOf(f) : m.status = "UPLOADED"
                   /\ s3[u] = "completed"
                \/ /\ MetaOf(f) = {}
                   /\ redis[u] = 0
                   /\ s3[u] # "completed"
             /\ c.code = 200 => MetaOf(f) # {}

\* the reconciler found the row of the event's key and the row is gone since
RowGone == poller.pc = "batch" /\ worker.pc = "found" /\ MetaByKey(worker.s3Key) = {}

\* C34: when the row the reconciler found was deleted by an abort before the update,
\* the update fails: no row is created, the loop goes on, and the message stays in
\* the queue without deleteMessage being called; when the message is handled again
\* it is skipped, no store changes, and deleteMessage is called for it.
C34_RowDeletedMeanwhile ==
    /\ [][(RowGone /\ worker' # worker) =>
             /\ UNCHANGED stores
             /\ worker'.pc = "idle" /\ worker'.result = "threw"
             /\ poller'.queue = poller.queue /\ poller'.last.end = "left"
             /\ poller'.batch = Tail(poller.batch)
             /\ poller'.pc \in {"batch", "poll"}]_vars
    /\ [][(/\ Unmatched
           /\ Head(poller.batch).id = poller.last.id /\ poller.last.end = "left"
           /\ Handles /\ worker'.result # "threw") =>
             /\ UNCHANGED stores
             /\ worker'.result = "skipped" /\ poller'.last.end = "asked"
             /\ \/ poller'.queue = poller.queue \ {Head(poller.batch)}
                \/ poller'.failures = poller.failures + 1]_vars

\* an abort deleted the row between the lookup and the update of the reconciler, with
\* no outage: the update threw and the message is still in the queue
C34_Witness ==
    /\ worker.pc = "idle" /\ worker.result = "threw" /\ poller.last.end = "left"
    /\ poller.failures = 0
    /\ \E m \in poller.queue :
          /\ m.id = poller.last.id
          /\ m.body.key # 0 /\ MetaByKey(m.body.key) = {}
          /\ \E a \in Requests : a.op = "abort" /\ a.uploadId = m.body.key
                                 /\ a.pc \in {"deleted", "done"} /\ a.err # "already"

\* the abort upload()'s catch sends after a part failed
CatchAborts == {a \in Requests : a.op = "abort" /\ a.from = "catch"}

\* C35: once upload()'s catch has sent the abort for a failed part, no part of the
\* upload sends a record-chunk call any more, and no PUT is started.
C35_NoStragglers ==
    [][CatchAborts # {} =>
          /\ \A q \in BagToSet(reqs') :
                (q.op = "recordChunk" /\ q.from = "part") =>
                    CopiesIn(q, reqs') <= CopiesIn(q, reqs) \/ q.pc = "done"
          /\ \A p \in PartNumbers : parts'[p].pc = "put" => parts[p].pc = "put"]_vars

\* C36: abort captures the object key of the FileMetadata row it reads; the row and
\* its Chunk rows are deleted in a step before the one that aborts the multipart
\* upload, which is aborted under the captured key; and no step of abort depends on
\* the Session entry, so all of this happens for an upload whose entry has expired.
C36_AbortOrder ==
    [][\A r \in Requests :
          (r.op = "abort" /\ Runs(r)) =>
             /\ r.pc = "recv" =>
                   \A q \in StepOf(r) :
                      IF MetaOf(r.fileId) = {}
                         THEN q.pc = "done"
                         ELSE q.pc = "found" /\ q.s3Key \in {m.s3Key : m \in MetaOf(r.fileId)}
             /\ r.pc = "found" =>
                   /\ UNCHANGED <<metadata, chunks, s3>>
                   /\ \A q \in StepOf(r) : q.pc = "uncached" /\ q.s3Key = r.s3Key
             /\ r.pc = "uncached" =>
                   /\ metadata' = metadata \ MetaOf(r.fileId)
                   /\ chunks' = chunks \ ChunksOf(r.fileId)
                   /\ UNCHANGED s3
                   /\ \A q \in StepOf(r) : q.pc = "deleted" /\ q.s3Key = r.s3Key
             /\ r.pc = "deleted" =>
                   /\ UNCHANGED <<metadata, chunks, redis>>
                   /\ (s3[r.uploadId] = "open" /\ r.s3Key = r.uploadId) =>
                         s3'[r.uploadId] = "aborted"
                   /\ \A q \in StepOf(r) : q.pc = "done" /\ q.code = 200]_vars

\* the one abort of an upload found no Session entry to delete (it had expired: no
\* complete was called) and has deleted the rows and aborted the multipart upload
C36_Witness ==
    \E a \in Answered :
       /\ a.op = "abort" /\ a.code = 200 /\ a.err = "none" /\ a.redisDeleted = 0
       /\ Copies({q \in Requests : q.op \in {"abort", "complete"}}) = 1
       /\ s3[a.uploadId] = "aborted"
       /\ MetaOf(a.fileId) = {} /\ ChunksOf(a.fileId) = {}

\* the answered aborts of upload u that had found its FileMetadata row
FoundRow(u) == {a \in AbortsOf(u) \cap Answered : a.err # "already"}

\* C37: an abort whose delete finds the row already gone goes on as if it had deleted
\* it; and when two aborts of one upload both found the row (so they ran at the same
\* time), both are answered with success and no FileMetadata row, Chunk row or Session
\* entry of the upload remains.
C37_ConcurrentAborts ==
    /\ [][\A r \in Requests :
             (r.op = "abort" /\ Runs(r) /\ r.pc = "uncached" /\ MetaOf(r.fileId) = {}) =>
                 /\ UNCHANGED <<metadata, chunks>>
                 /\ \A q \in StepOf(r) : q.pc = "deleted"]_vars
    /\ [](\A u \in UploadIds :
             (issued[u] # "" /\ OnlyInitiateOf(u) /\ Copies(FoundRow(u)) >= 2) =>
                 /\ \A a \in FoundRow(u) : a.code = 200
                 /\ MetaOf(issued[u]) = {}
                 /\ ChunksOf(issued[u]) = {}
                 /\ redis[u] = 0)

\* two aborts of one upload both read the row before either deleted it, and both
\* were answered
C37_Witness ==
    \E u \in UploadIds :
       /\ issued[u] # "" /\ OnlyInitiateOf(u)
       /\ Copies(FoundRow(u)) = 2
       /\ \A a \in FoundRow(u) : a.code = 200 /\ a.fileId = issued[u]
       /\ \E a \in FoundRow(u) : a.redisDeleted = 0

\* C38: with the notification of a finalized object delivered and the poll loop
\* scheduled fairly, the FileMetadata row of the object (which nothing deletes)
\* becomes UPLOADED, also when the update of complete itself failed, and every message
\* put on the queue is deleted from it.
C38_EventuallyUploaded ==
    /\ \A u \in UploadIds :
          (s3[u] = "completed" /\ MetaByKey(u) # {}) ~>
              (\E m \in MetaByKey(u) : m.status = "UPLOADED")
    /\ \A i \in 1 .. MaxMessages : InQueue(i) ~> ~InQueue(i)

\* complete answered 500 because its update of the row failed; the reconciler has
\* marked the row UPLOADED and the message of the event is deleted
C38_Witness ==
    /\ \E c \in Answered : /\ c.op = "complete" /\ c.code = 500 /\ c.err = "Internal error"
                           /\ s3[c.uploadId] = "completed"
                           /\ \E m \in MetaByKey(c.uploadId) : m.status = "UPLOADED"
    /\ poller.sent >= 1 /\ poller.queue = {}
    /\ worker.result = "updated"

\* C39: a step of processS3Record changes no Chunk row, no Session entry and no
\* multipart upload, creates and deletes no FileMetadata row, and changes at most one
\* row, the one whose object key is the key of the record: its status becomes
\* UPLOADED, and its size the size of the record when the record has one.
C39_ReconcilerFrame ==
    [][worker' # worker =>
          /\ UNCHANGED <<chunks, redis, s3>>
          /\ {m.fileId : m \in metadata'} = {m.fileId : m \in metadata}
          /\ Cardinality(metadata') = Cardinality(metadata)
          /\ Cardinality(metadata \ metadata') <= 1
          /\ worker.pc = "idle" => metadata' = metadata
          /\ \A m \in metadata \ metadata' :
                /\ m.s3Key = worker.s3Key
                /\ \E n \in metadata' \ metadata :
                      /\ n.fileId = m.fileId /\ n.s3Key = m.s3Key
                      /\ n.status = "UPLOADED"
                      /\ n.size = IF worker.size # 0 THEN worker.size ELSE m.size]_vars

\* the event of the object of a 12 MB file, which carried the size of the object,
\* was processed: the row is UPLOADED with that size and its Chunk rows are PENDING
C39_Witness ==
    /\ worker.pc = "idle" /\ worker.result = "updated"
    /\ \E m \in metadata :
          /\ m.status = "UPLOADED" /\ m.size = CHUNK_SIZE
          /\ DeclaredSize(m) = 12 * 1024 * 1024
          /\ Cardinality(ChunksOf(m.fileId)) = 3
          /\ \A c \in ChunksOf(m.fileId) : c.status = "PENDING"

\* C40: the recognizers are tried in one order and the first that matches gives the
\* records: none for an s3:TestEvent whatever else the body has; else the Records
\* array of the body when it has one; else the Records array in the Message of a
\* Notification when the Message parses to an object that has one; else the one record
\* of an audit event; and none for a body that matches no recognizer.
C40_FirstMatchDecides ==
    worker.pc = "records" =>
       LET b == worker.messageBody
           out == worker.extracted
           probe == b.Event = "s3:TestEvent"
           direct == b.Records.has
           wrapped == b.Message.has /\ b.Message.json = "Records"
           audit == b.detail.has
       IN /\ probe => out = <<>>
          /\ (~probe /\ direct) => out = b.Records.list
          /\ (~probe /\ ~direct /\ wrapped) => out = b.Message.list
          /\ (~probe /\ ~direct /\ ~wrapped /\ audit) =>
                (Len(out) = 1 /\ out[1].key = b.detail.key /\ out[1].size = 0)
          /\ (~probe /\ ~direct /\ ~wrapped /\ ~audit) => out = <<>>

\* a probe event that also has a Records array with a record gave no records
C40_Witness ==
    /\ worker.pc = "records"
    /\ worker.messageBody.Event = "s3:TestEvent"
    /\ worker.messageBody.Records.has /\ worker.messageBody.Records.list # <<>>
    /\ worker.extracted = <<>>

\* ------------------------------------------------------------ specification

Init ==
    /\ metadata = {}
    /\ chunks = {}
    /\ redis = [u \in UploadIds |-> 0]
    /\ s3 = [u \in UploadIds |-> "none"]
    /\ reqs = EmptyBag
    /\ worker = WorkerIdle
    /\ issued = [u \in UploadIds |-> ""]
    /\ up = FileUploader(12 * 1024 * 1024)
    /\ parts = [p \in PartNumbers |-> NoChunk]
    /\ poller = PollerIdle

Next ==
    \/ \E f \in FileIds, size \in FileSizes : CallGetUploadUrls(f, size)
    \/ \E f \in FileIds, i \in ChunkIndexes, e \in Etags : CallRecordChunk(f, i, e)
    \/ \E u \in UploadIds : CallComplete(u)
    \/ \E u \in UploadIds : CallAbort(u)
    \/ \E r \in Requests : getUploadUrls_initUpload(r)
    \/ \E r \in Requests : getUploadUrls_setSession(r)
    \/ \E r \in Requests : getUploadUrls_transaction(r)
    \/ \E r \in Requests : getUploadUrls_initUploadFails(r)
    \/ \E r \in Requests : getUploadUrls_throws(r)
    \/ \E r \in Requests : recordChunkUpload(r)
    \/ \E r \in Requests : completeUpload_getSession(r)
    \/ \E r \in Requests : completeUpload_s3(r)
    \/ \E r \in Requests : completeUpload_s3Rejects(r)
    \/ \E r \in Requests : completeUpload_recordUploaded(r)
    \/ \E r \in Requests : completeUpload_delSession(r)
    \/ \E r \in Requests : abortUpload_findFirst(r)
    \/ \E r \in Requests : abortUpload_delSession(r)
    \/ \E r \in Requests : abortUpload_deleteMetadata(r)
    \/ \E r \in Requests : abortUpload_s3(r)
    \/ \E r \in Requests : abortUpload_s3Fails(r)
    \/ \E k \in UploadIds, size \in EventSizes : processS3Record_find(k, size)
    \/ processS3Record_update

Spec == Init /\ [][Next]_vars

\* The coordinator with the expiry of Session entries.
NextTTL ==
    \/ \E f \in FileIds, size \in FileSizes : CallGetUploadUrls(f, size)
    \/ \E f \in FileIds, i \in ChunkIndexes, e \in Etags : CallRecordChunk(f, i, e)
    \/ \E u \in UploadIds : CallComplete(u)
    \/ \E u \in UploadIds : CallAbort(u)
    \/ \E r \in Requests : getUploadUrls_initUpload(r)
    \/ \E r \in Requests : getUploadUrls_setSession(r)
    \/ \E r \in Requests : getUploadUrls_transaction(r)
    \/ \E u \in UploadIds : sessionExpires(u)
    \/ \E r \in Requests : recordChunkUpload(r)
    \/ \E r \in Requests : completeUpload_getSession(r)
    \/ \E r \in Requests : completeUpload_s3(r)
    \/ \E r \in Requests : completeUpload_s3Rejects(r)
    \/ \E r \in Requests : completeUpload_recordUploaded(r)
    \/ \E r \in Requests : completeUpload_delSession(r)
    \/ \E r \in Requests : abortUpload_findFirst(r)
    \/ \E r \in Requests : abortUpload_delSession(r)
    \/ \E r \in Requests : abortUpload_deleteMetadata(r)
    \/ \E r \in Requests : abortUpload_s3(r)

SpecTTL == Init /\ [][NextTTL]_vars

\* initiate and abort, abort called with any uploadId and fileId.
NextAbort ==
    \/ \E f \in FileIds, size \in FileSizes : CallGetUploadUrls(f, size)
    \/ \E u \in UploadIds, f \in FileIds : CallAbortAny(u, f)
    \/ \E r \in Requests : getUploadUrls_initUpload(r)
    \/ \E r \in Requests : getUploadUrls_setSession(r)
    \/ \E r \in Requests : getUploadUrls_transaction(r)
    \/ \E r \in Requests : getUploadUrls_initUploadFails(r)
    \/ \E r \in Requests : getUploadUrls_throws(r)
    \/ \E r \in Requests : abortUpload_findFirst(r)
    \/ \E r \in Requests : abortUpload_delSession(r)
    \/ \E r \in Requests : abortUpload_deleteMetadata(r)
    \/ \E r \in Requests : abortUpload_s3(r)
    \/ \E r \in Requests : abortUpload_s3Fails(r)
    \/ \E r \in Requests : abortUpload_throws(r)

SpecAbort == Init /\ [][NextAbort]_vars

\* The browser's uploader against the coordinator.
InitClient ==
    /\ metadata = {}
    /\ chunks = {}
    /\ redis = [u \in UploadIds |-> 0]
    /\ s3 = [u \in UploadIds |-> "none"]
    /\ reqs = EmptyBag
    /\ worker = WorkerIdle
    /\ issued = [u \in UploadIds |-> ""]
    /\ up \in {FileUploader(size) : size \in ClientFileSizes}
    /\ parts = [p \in PartNumbers |-> NoChunk]
    /\ poller = PollerIdle

NextClient ==
    \/ upload
    \/ makeRequest_fetch
    \/ makeRequest_failed
    \/ upload_initiated
    \/ \E p \in PartNumbers : uploadChunk_put(p)
    \/ \E p \in PartNumbers : uploadChunk_putFails(p)
    \/ \E p \in PartNumbers : recordChunk_fetch(p)
    \/ \E p \in PartNumbers : recordChunk_response(p)
    \/ \E p \in PartNumbers : batch_rejects(p)
    \/ batch_resolves
    \/ upload_completed
    \/ abortUpload_settles
    \/ cancel
    \/ cancelWithCleanup
    \/ cancelUpload_released
    \/ \E r \in Requests : getUploadUrls_initUpload(r)
    \/ \E r \in Requests : getUploadUrls_setSession(r)
    \/ \E r \in Requests : getUploadUrls_transaction(r)
    \/ \E r \in Requests : getUploadUrls_initUploadFails(r)
    \/ \E r \in Requests : getUploadUrls_throws(r)
    \/ \E r \in Requests : recordChunkUpload(r)
    \/ \E r \in Requests : completeUpload_getSession(r)
    \/ \E r \in Requests : completeUpload_s3(r)
    \/ \E r \in Requests : completeUpload_s3Rejects(r)
    \/ \E r \in Requests : completeUpload_recordUploaded(r)
    \/ \E r \in Requests : completeUpload_delSession(r)
    \/ \E r \in Requests : abortUpload_findFirst(r)
    \/ \E r \in Requests : abortUpload_delSession(r)
    \/ \E r \in Requests : abortUpload_deleteMetadata(r)
    \/ \E r \in Requests : abortUpload_s3(r)
    \/ \E r \in Requests : abortUpload_s3Fails(r)

SpecClient == InitClient /\ [][NextClient]_vars

\* The browser's uploader against a coordinator whose durable store may be unreachable
\* while record-chunk calls arrive.
PartFileSizes == {16 * 1024 * 1024}

InitParts ==
    /\ metadata = {}
    /\ chunks = {}
    /\ redis = [u \in UploadIds |-> 0]
    /\ s3 = [u \in UploadIds |-> "none"]
    /\ reqs = EmptyBag
    /\ worker = WorkerIdle
    /\ issued = [u \in UploadIds |-> ""]
    /\ up \in {FileUploader(size) : size \in PartFileSizes}
    /\ parts = [p \in PartNumbers |-> NoChunk]
    /\ poller = PollerIdle

NextParts ==
    \/ upload
    \/ makeRequest_fetch
    \/ makeRequest_failed
    \/ upload_initiated
    \/ \E p \in PartNumbers : uploadChunk_put(p)
    \/ \E p \in PartNumbers : uploadChunk_putFails(p)
    \/ \E p \in PartNumbers : recordChunk_fetch(p)
    \/ \E p \in PartNumbers : recordChunk_response(p)
    \/ \E p \in PartNumbers : batch_rejects(p)
    \/ batch_resolves
    \/ upload_completed
    \/ abortUpload_settles
    \/ cancel
    \/ cancelWithCleanup
    \/ cancelUpload_released
    \/ \E r \in Requests : getUploadUrls_initUpload(r)
    \/ \E r \in Requests : getUploadUrls_setSession(r)
    \/ \E r \in Requests : getUploadUrls_transaction(r)
    \/ \E r \in Requests : recordChunkUpload(r)
    \/ \E r \in Requests : recordChunkUpload_throws(r)
    \/ \E r \in Requests : completeUpload_getSession(r)
    \/ \E r \in Requests : completeUpload_s3(r)
    \/ \E r \in Requests : completeUpload_s3Rejects(r)
    \/ \E r \in Requests : completeUpload_recordUploaded(r)
    \/ \E r \in Requests : completeUpload_delSession(r)
    \/ \E r \in Requests : abortUpload_findFirst(r)
    \/ \E r \in Requests : abortUpload_delSession(r)
    \/ \E r \in Requests : abortUpload_deleteMetadata(r)
    \/ \E r \in Requests : abortUpload_s3(r)

SpecParts == InitParts /\ [][NextParts]_vars

\* The poll loop on the event queue beside the coordinator serving one upload, which
\* is initiated, completed and aborted once at most.
InitPoll == Init

NextPoll ==
    \/ First("getUploadUrls") /\ CallGetUploadUrls("f1", CHUNK_SIZE)
    \/ \E u \in UploadIds : First("complete") /\ CallComplete(u)
    \/ \E u \in UploadIds : First("abort") /\ CallAbort(u)
    \/ \E r \in Requests : getUploadUrls_initUpload(r)
    \/ \E r \in Requests : getUploadUrls_setSession(r)
    \/ \E r \in Requests : getUploadUrls_transaction(r)
    \/ \E r \in Requests : completeUpload_getSession(r)
    \/ \E r \in Requests : completeUpload_s3(r)
    \/ \E r \in Requests : completeUpload_recordUploaded(r)
    \/ \E r \in Requests : completeUpload_delSession(r)
    \/ \E r \in Requests : abortUpload_findFirst(r)
    \/ \E r \in Requests : abortUpload_delSession(r)
    \/ \E r \in Requests : abortUpload_deleteMetadata(r)
    \/ \E r \in Requests : abortUpload_s3(r)
    \/ \E body \in Bodies : notify(body)
    \/ pollS3Events_receive
    \/ pollS3Events_receiveFails
    \/ pollS3Events_delay
    \/ \E ok \in Deletes : pollS3Events_message(ok)
    \/ \E ok \in Deletes : pollS3Events_update(ok)
    \/ pollS3Events_storeFails

SpecPoll == InitPoll /\ [][NextPoll]_vars

\* The poll loop on a queue that gets messages naming no object, with no upload going
\* on. The loop runs on: it is never suspended for ever while it can take a step, and
\* nothing makes a call fail for ever.
NextQueue ==
    \/ \E body \in {b \in Bodies : b.key = 0} : notify(body)
    \/ pollS3Events_receive
    \/ pollS3Events_receiveFails
    \/ pollS3Events_delay
    \/ \E ok \in Deletes : pollS3Events_message(ok)

SpecPollLive ==
    /\ InitPoll /\ [][NextQueue]_vars
    /\ WF_vars(pollS3Events_receive)
    /\ WF_vars(pollS3Events_delay)
    /\ WF_vars(pollS3Events_message(TRUE))


\* The browser cuts a file into its parts while the coordinator creates its rows.
InitCut ==
    /\ metadata = {}
    /\ chunks = {}
    /\ redis = [u \in UploadIds |-> 0]
    /\ s3 = [u \in UploadIds |-> "none"]
    /\ reqs = EmptyBag
    /\ worker = WorkerIdle
    /\ issued = [u \in UploadIds |-> ""]
    /\ up \in {Cutter(size, chunkSize) : <<size, chunkSize>> \in
                  {c \in CutFileSizes \X PartSizes : c[1] <= MaxParts * c[2]}}
    /\ parts = [p \in PartNumbers |-> NoChunk]
    /\ poller = PollerIdle

NextCut ==
    \/ uploadChunk_getPart
    \/ upload_getUploadUrls
    \/ \E r \in Requests : getUploadUrls_initUpload(r)
    \/ \E r \in Requests : getUploadUrls_setSession(r)
    \/ \E r \in Requests : getUploadUrls_transaction(r)

SpecCut == InitCut /\ [][NextCut]_vars

\* The coordinator given initiate calls with bodies of every kind.
NextValidate ==
    \/ \E body \in BadBodies : CallGetUploadUrlsWith(body)
    \/ \E f \in FileIds, size \in EdgeSizes : CallGetUploadUrls(f, size)
    \/ \E r \in Requests : getUploadUrls_initUpload(r)
    \/ \E r \in Requests : getUploadUrls_setSession(r)
    \/ \E r \in Requests : getUploadUrls_transaction(r)

SpecValidate == Init /\ [][NextValidate]_vars

\* One upload whose complete and abort reach the coordinator at the same time.
NextRace ==
    \/ \E f \in FileIds, size \in FileSizes :
          Requests = {} /\ CallGetUploadUrls(f, size)
    \/ \E u \in UploadIds : CallCompleteAndAbort(u)
    \/ \E r \in Requests : getUploadUrls_initUpload(r)
    \/ \E r \in Requests : getUploadUrls_setSession(r)
    \/ \E r \in Requests : getUploadUrls_transaction(r)
    \/ \E r \in Requests : completeUpload_getSession(r)
    \/ \E r \in Requests : completeUpload_s3(r)
    \/ \E r \in Requests : completeUpload_s3Rejects(r)
    \/ \E r \in Requests : completeUpload_recordUploaded(r)
    \/ \E r \in Requests : completeUpload_delSession(r)
    \/ \E r \in Requests : abortUpload_findFirst(r)
    \/ \E r \in Requests : abortUpload_delSession(r)
    \/ \E r \in Requests : abortUpload_deleteMetadata(r)
    \/ \E r \in Requests : abortUpload_s3(r)
    \/ \E r \in Requests : abortUpload_s3Fails(r)

SpecRace == Init /\ [][NextRace]_vars

\* One upload that is completed and never aborted, the notifications of its object,
\* and the poll loop, all scheduled fairly.
NextSettle ==
    \/ Requests = {} /\ CallGetUploadUrls("f1", CHUNK_SIZE)
    \/ \E u \in UploadIds : First("complete") /\ CallComplete(u)
    \/ \E r \in Requests : getUploadUrls_initUpload(r)
    \/ \E r \in Requests : getUploadUrls_setSession(r)
    \/ \E r \in Requests : getUploadUrls_transaction(r)
    \/ \E r \in Requests : completeUpload_getSession(r)
    \/ \E r \in Requests : completeUpload_s3(r)
    \/ \E r \in Requests : completeUpload_recordUploaded(r)
    \/ \E r \in Requests : completeUpload_recordUploadedFails(r)
    \/ \E r \in Requests : completeUpload_delSession(r)
    \/ \E body \in {b \in Bodies : b.key # 0} : notify(body)
    \/ pollS3Events_receive
    \/ pollS3Events_receiveFails
    \/ pollS3Events_delay
    \/ \E ok \in Deletes : pollS3Events_message(ok)
    \/ \E ok \in Deletes : pollS3Events_update(ok)
    \/ pollS3Events_storeFails

SpecSettle ==
    /\ InitPoll /\ [][NextSettle]_vars
    /\ WF_vars(\E body \in {b \in Bodies : b.key # 0} : notify(body))
    /\ WF_vars(pollS3Events_receive)
    /\ WF_vars(pollS3Events_delay)
    /\ WF_vars(\E ok \in Deletes : pollS3Events_message(ok))
    /\ WF_vars(\E ok \in Deletes : pollS3Events_update(ok))

\* extractS3Records applied to message bodies of every combination of members.
InitShapes ==
    /\ metadata = {}
    /\ chunks = {}
    /\ redis = [u \in UploadIds |-> 0]
    /\ s3 = [u \in UploadIds |-> "none"]
    /\ reqs = EmptyBag
    /\ worker \in {Parsed(messageBody) : messageBody \in Envelopes}
    /\ issued = [u \in UploadIds |-> ""]
    /\ up = FileUploader(12 * 1024 * 1024)
    /\ parts = [p \in PartNumbers |-> NoChunk]
    /\ poller = PollerIdle

NextShapes ==
    \/ extractS3Records_call
    \/ processS3Record_call

SpecShapes == InitShapes /\ [][NextShapes]_vars
====
